---------------------------- MODULE Spec2Model ----------------------------
(***************************************************************************)
(* Model of clinical-data-pipeline: the CID -> NCT resolver chain          *)
(* (pubchem/pug_view.py, pubchem/web_fallback), the per-CID mapping        *)
(* (pipeline/cid_to_nct.py) and the streaming collection pipeline          *)
(* (pipeline/collect_ctgov_docs_service.py).                               *)
(***************************************************************************)
EXTENDS Naturals, Integers, Sequences, FiniteSets, TLC

(***************************************************************************)
(* Strings.  A Python str is a TLA+ string; characters are its substrings  *)
(* of length one.  Ord gives the code point of a printable ASCII character *)
(* so that sorted() and the regular expressions are computed as Python     *)
(* computes them.                                                          *)
(***************************************************************************)
Ch(s, i) == SubSeq(s, i, i)

\* code points 32..95 and 97..126 (the backquote, 96, cannot be written in a string)
AsciiLow == " !\"#$%&'()*+,-./0123456789:;<=>?@ABCDEFGHIJKLMNOPQRSTUVWXYZ[\\]^_"

AsciiHigh == "abcdefghijklmnopqrstuvwxyz{|}~"

OrdTable ==
    [c \in {Ch(AsciiLow, i) : i \in 1..Len(AsciiLow)} \cup {Ch(AsciiHigh, i) : i \in 1..Len(AsciiHigh)} |->
        IF \E i \in 1..Len(AsciiLow) : Ch(AsciiLow, i) = c
        THEN 31 + (CHOOSE i \in 1..Len(AsciiLow) : Ch(AsciiLow, i) = c)
        ELSE 96 + (CHOOSE i \in 1..Len(AsciiHigh) : Ch(AsciiHigh, i) = c)]

Ord(c) == OrdTable[c]

ChrOf(n) == IF n <= 95 THEN Ch(AsciiLow, n - 31) ELSE Ch(AsciiHigh, n - 96)

IsUpper(c) == Ord(c) >= 65 /\ Ord(c) <= 90

IsLower(c) == Ord(c) >= 97 /\ Ord(c) <= 122

IsDigit(c) == Ord(c) >= 48 /\ Ord(c) <= 57

IsSpace(c) == c = " "

\* \w of the re module, on ASCII text
IsWordChar(c) == IsUpper(c) \/ IsLower(c) \/ IsDigit(c) \/ c = "_"

UpperCh(c) == IF IsLower(c) THEN ChrOf(Ord(c) - 32) ELSE c

LowerCh(c) == IF IsUpper(c) THEN ChrOf(Ord(c) + 32) ELSE c

RECURSIVE Upper(_)
Upper(s) == IF s = "" THEN "" ELSE UpperCh(Ch(s, 1)) \o Upper(SubSeq(s, 2, Len(s)))

RECURSIVE Lower(_)
Lower(s) == IF s = "" THEN "" ELSE LowerCh(Ch(s, 1)) \o Lower(SubSeq(s, 2, Len(s)))

RECURSIVE LStrip(_)
LStrip(s) == IF s # "" /\ IsSpace(Ch(s, 1)) THEN LStrip(SubSeq(s, 2, Len(s))) ELSE s

RECURSIVE RStrip(_)
RStrip(s) == IF s # "" /\ IsSpace(Ch(s, Len(s))) THEN RStrip(SubSeq(s, 1, Len(s) - 1)) ELSE s

Strip(s) == RStrip(LStrip(s))

\* whether lit occurs in s at position i
LitAt(s, i, lit) == i >= 1 /\ i + Len(lit) - 1 <= Len(s) /\ SubSeq(s, i, i + Len(lit) - 1) = lit

\* the position of the first character of s that is in chars, Len(s) + 1 if there is none
RECURSIVE FirstFrom(_, _, _)
FirstFrom(s, chars, i) == IF i > Len(s) \/ Ch(s, i) \in chars THEN i ELSE FirstFrom(s, chars, i + 1)

FirstOf(s, chars) == FirstFrom(s, chars, 1)

\* Python: lit in s
Contains(s, lit) == \E i \in 1..(Len(s) + 1) : LitAt(s, i, lit)

\* Python's < on str: code points, a proper prefix first
RECURSIVE StrLess(_, _)
StrLess(a, b) ==
    IF b = "" THEN FALSE
    ELSE IF a = "" THEN TRUE
    ELSE IF Ch(a, 1) # Ch(b, 1) THEN Ord(Ch(a, 1)) < Ord(Ch(b, 1))
    ELSE StrLess(SubSeq(a, 2, Len(a)), SubSeq(b, 2, Len(b)))

\* sorted(S) for a set of str
RECURSIVE Sorted(_)
Sorted(S) ==
    IF S = {} THEN <<>>
    ELSE LET m == CHOOSE x \in S : \A y \in S : y = x \/ StrLess(x, y)
         IN <<m>> \o Sorted(S \ {m})

SeqToSet(q) == {q[i] : i \in 1..Len(q)}

(***************************************************************************)
(* NCT_RE = \bNCT\d{8}\b with IGNORECASE, and finditer over a text.  A      *)
(* match is 11 word characters with a word boundary on each side, so two   *)
(* matches never overlap and finditer yields every matching position.      *)
(***************************************************************************)
NctIdLen == 11

NctMatchAt(text, i) ==
    /\ i >= 1 /\ i + NctIdLen - 1 <= Len(text)
    /\ Lower(SubSeq(text, i, i + 2)) = "nct"
    /\ \A k \in (i + 3)..(i + NctIdLen - 1) : IsDigit(Ch(text, k))
    /\ (i = 1 \/ ~IsWordChar(Ch(text, i - 1)))
    /\ (i + NctIdLen - 1 = Len(text) \/ ~IsWordChar(Ch(text, i + NctIdLen)))

\* {m.group(0).upper() for m in NCT_RE.finditer(text or "")}
extract_nct_ids_from_text(text) ==
    {Upper(SubSeq(text, i, i + NctIdLen - 1)) : i \in {j \in 1..Len(text) : NctMatchAt(text, j)}}

(***************************************************************************)
(* JSON values: a payload is a tree of tagged records.  A dict keeps its   *)
(* items in insertion order as a sequence of <<key, value>> pairs.         *)
(***************************************************************************)
JNull == [t |-> "null"]

JStr(s) == [t |-> "str", s |-> s]

JList(items) == [t |-> "list", items |-> items]

JDict(kv) == [t |-> "dict", kv |-> kv]

IsStr(v) == v.t = "str"

IsDict(v) == v.t = "dict"

DictValues(d) == [i \in 1..Len(d.kv) |-> d.kv[i][2]]

DictHas(d, k) == \E i \in 1..Len(d.kv) : d.kv[i][1] = k

\* d.get(k): None when the key is absent
DictGet(d, k) == IF DictHas(d, k) THEN d.kv[CHOOSE i \in 1..Len(d.kv) : d.kv[i][1] = k][2] ELSE JNull

\* _walk(obj): every value below obj, parents before children, in order
RECURSIVE Walk(_)
RECURSIVE WalkSeq(_)
Walk(obj) ==
    IF obj.t = "dict" THEN WalkSeq(DictValues(obj))
    ELSE IF obj.t = "list" THEN WalkSeq(obj.items)
    ELSE <<>>

WalkSeq(vs) == IF vs = <<>> THEN <<>> ELSE <<Head(vs)>> \o Walk(Head(vs)) \o WalkSeq(Tail(vs))

WalkSet(obj) == SeqToSet(Walk(obj))

(***************************************************************************)
(* pubchem/pug_view.py: the regular expressions and the extractors         *)
(***************************************************************************)
\* CTGOV_HOST_RE.search(url)
CTGOV_HOST_RE(url) == Contains(Lower(url), "clinicaltrials.gov")

RECURSIVE SkipSpaces(_, _)
SkipSpaces(s, i) == IF i <= Len(s) /\ IsSpace(Ch(s, i)) THEN SkipSpaces(s, i + 1) ELSE i

\* CLINICAL_TRIALS_RE.search(s): clinical\s*trials?(\.gov)?  (the optional tail never decides a search)
CLINICAL_TRIALS_RE(s) ==
    LET l == Lower(s)
    IN \E i \in 1..Len(l) : LitAt(l, i, "clinical") /\ LitAt(l, SkipSpaces(l, i + 8), "trial")

\* positions after one separator at position i: \s or - (and, in the first group, & or "and")
SepOnce(l, i, withAmpAnd) ==
    (IF i <= Len(l) /\ (IsSpace(Ch(l, i)) \/ Ch(l, i) = "-" \/ (withAmpAnd /\ Ch(l, i) = "&"))
     THEN {i + 1} ELSE {})
    \cup (IF withAmpAnd /\ LitAt(l, i, "and") THEN {i + 3} ELSE {})

\* positions after one or more separators starting at position i
RECURSIVE SepPlus(_, _, _)
SepPlus(l, i, withAmpAnd) ==
    LET one == SepOnce(l, i, withAmpAnd)
    IN one \cup UNION {SepPlus(l, j, withAmpAnd) : j \in one}

\* DRUG_MED_INFO_RE.search(s): drug(?:\s|-|&|and)+medication(?:\s|-)+information
DRUG_MED_INFO_RE(s) ==
    LET l == Lower(s)
    IN \E i \in 1..Len(l) :
          /\ LitAt(l, i, "drug")
          /\ \E j \in SepPlus(l, i + 4, TRUE) :
                /\ LitAt(l, j, "medication")
                /\ \E k \in SepPlus(l, j + 10, FALSE) : LitAt(l, k, "information")

\* _extract_urls(value)
extract_urls(value) ==
    {DictGet(x, "URL").s : x \in {y \in WalkSet(value) : IsDict(y) /\ DictHas(y, "URL") /\ IsStr(DictGet(y, "URL"))}}

\* _extract_nct_ids_from_payload(payload)
extract_nct_ids_from_payload(p) ==
    UNION {extract_nct_ids_from_text(url) : url \in {u \in extract_urls(p) : CTGOV_HOST_RE(u)}}
    \cup UNION {extract_nct_ids_from_text(x.s) :
                  x \in {y \in WalkSet(p) : IsStr(y) /\ (Contains(Lower(y.s), "nct") \/ Contains(Lower(y.s), "clinicaltrials.gov"))}}

\* _has_external_clinical_trials_ref(payload)
has_external_clinical_trials_ref(p) ==
    \E x \in WalkSet(p) :
        /\ IsDict(x)
        /\ IsStr(DictGet(x, "ExternalTableName"))
        /\ CLINICAL_TRIALS_RE(DictGet(x, "ExternalTableName").s)

FixedHeadings ==
    {"ClinicalTrials.gov", "Clinical Trials", "ClinicalTrials",
     "Drug and Medication Information", "Drug-and-Medication-Information"}

HeadingKeys == {"TOCHeading", "Name", "Heading", "Title"}

HeadingValues(p) == {DictGet(x, k) : x \in {y \in WalkSet(p) : IsDict(y)}, k \in HeadingKeys}

\* _candidate_clinical_headings(payload)
candidate_clinical_headings(p) ==
    FixedHeadings \cup
    {Strip(v.s) : v \in {w \in HeadingValues(p) : IsStr(w) /\ (CLINICAL_TRIALS_RE(w.s) \/ DRUG_MED_INFO_RE(w.s))}}

(***************************************************************************)
(* pubchem/web_fallback/common.py: the extractors of the web fallback      *)
(***************************************************************************)
\* extract_nct_ids_from_html(html)
extract_nct_ids_from_html(html) == Sorted(extract_nct_ids_from_text(html))

\* extract_nct_ids_from_sdq_payload(payload)
extract_nct_ids_from_sdq_payload(p) ==
    Sorted(UNION {extract_nct_ids_from_text(x.s) : x \in {y \in WalkSet(p) : IsStr(y)}})

(***************************************************************************)
(* Upstream answers.  Every HTTP call of the resolver gets one answer: a   *)
(* body, an HTTP error status ("http"), a connection error left after the  *)
(* retries ("conn") or, for the SDQ endpoint, a body that is not JSON      *)
(* ("badjson").                                                            *)
(***************************************************************************)
Answer(outcome, body) == [outcome |-> outcome, body |-> body]

Info(items) ==
    JDict(<< <<"Record", JDict(<< <<"Section", JList(<<JDict(<< <<"Information", JList(items)>> >>)>>)>> >>)>> >>)

UrlItem == JDict(<< <<"URL", JStr("https://clinicaltrials.gov/study/NCT01234567")>> >>)

ExternalTableItem == JDict(<< <<"ExternalTableName", JStr("clinicaltrials")>> >>)

BasePayloads ==
    { JDict(<< <<"Record", JDict(<<>>)>> >>),
      Info(<<UrlItem>>),
      Info(<<ExternalTableItem>>),
      Info(<<UrlItem, ExternalTableItem>>),
      Info(<<JDict(<< <<"StringValue", JStr("see nct00000002, not XNCT00000003")>> >>)>>),
      JDict(<< <<"Record", JDict(<< <<"Section", JList(<<JDict(<< <<"TOCHeading", JStr(" Clinical Trial Phases ")>> >>)>>)>> >>)>> >>) }

HeadingPayloads ==
    { JDict(<< <<"Record", JDict(<< <<"Section", JList(<<>>)>> >>)>> >>),
      Info(<<JDict(<< <<"StringValue", JStr("Referenced study NCT76543210")>> >>)>>) }

Rows(rows) == JDict(<< <<"SDQOutputSet", JList(<<JDict(<< <<"rows", JList(rows)>> >>)>>)>> >>)

SdqPayloads ==
    { Rows(<<>>),
      Rows(<<JDict(<< <<"ctid", JStr("NCT01214278")>>, <<"title", JStr("Trial")>> >>),
             JDict(<< <<"ctid", JStr("nct00000001")>>, <<"link", JStr("https://clinicaltrials.gov/study/NCT00000001")>> >>)>>),
      Rows(<<JDict(<< <<"eudractnumber", JStr("2006-006023-39")>>, <<"title", JStr("EU Trial")>> >>)>>) }

HtmlPages ==
    { JStr("<html><body></body></html>"),
      JStr("<html><body>CTID: NCT01214278 and nct00000001, NCT012142789</body></html>") }

Answers(bodies, errors) == {Answer("ok", b) : b \in bodies} \cup {Answer(e, JNull) : e \in errors}

BaseAnswers == Answers(BasePayloads, {"http", "conn"})

HeadingAnswers == Answers(HeadingPayloads, {"http", "conn"})

SdqAnswers == Answers(SdqPayloads, {"http", "badjson", "conn"})

HtmlAnswers == Answers(HtmlPages, {"http", "conn"})

\* what an injected client that only has nct_ids_for_cid may answer
\* (pug_view.py lines 172-174 take the list as it comes, whatever its strings are)
LegacyAnswers ==
    { [outcome |-> "ok", ids |-> <<>>],
      [outcome |-> "ok", ids |-> <<"NCT76543210", "NCT00000001", "NCT76543210">>],
      [outcome |-> "ok", ids |-> <<"nct00000001", "2006-006023-39", "NCT76543210">>],
      [outcome |-> "PubChemWebFallbackError", ids |-> <<>>] }

\* what an injected client that overrides nct_ids_for_cid_with_source may answer
\* (pug_view.py lines 170 and 175-178 take its list and its label as they come)
StubAnswers ==
    { [outcome |-> "ok", ids |-> <<>>, source |-> "PubChem web fallback (empty)"],
      [outcome |-> "ok", ids |-> <<"NCT01214278">>, source |-> "PubChem web clinicaltrials endpoint fallback (sdq)"],
      [outcome |-> "ok", ids |-> <<"NCT01214278">>, source |-> ""],
      [outcome |-> "ok", ids |-> <<"nct00000001", "2006-006023-39", "nct00000001">>, source |-> ""],
      [outcome |-> "PubChemWebFallbackError", ids |-> <<>>, source |-> ""] }

\* get_compound_record / get_compound_record_by_heading: the exception a failed request leaves
PugViewException(outcome) == IF outcome = "http" THEN "PubChemPugViewError" ELSE "RequestException"

\* get_sdq_payload / get_compound_page_html: the exception a failed request leaves
WebFallbackException(outcome) ==
    IF outcome \in {"http", "badjson"} THEN "PubChemWebFallbackError" ELSE "RequestException"

(***************************************************************************)
(* The provenance labels                                                   *)
(***************************************************************************)
LabelAnnotations == "PubChem PUG-View annotations"

LabelLegacy == "PubChem web fallback (compound page HTML)"

LabelSdqCt == "PubChem web clinicaltrials endpoint fallback (sdq)"

LabelSdqEu == "PubChem web EU Clinical Trials Register endpoint fallback (sdq)"

LabelSdqJp == "PubChem web NIPH Clinical Trials Search of Japan endpoint fallback (sdq)"

LabelHtml == "PubChem web compound page fallback (html)"

LabelEmpty == "PubChem web fallback (empty)"

(***************************************************************************)
(* State of one call of the CID -> NCT resolver                            *)
(* (PubChemPugViewClient.nct_ids_for_cid_with_source, or a direct call of  *)
(* PubChemWebFallbackClient.nct_ids_for_cid_with_source).                  *)
(***************************************************************************)
VARIABLES
    pc,                   \* position of the call: idle, headings, sdq_ct, sdq_eu, sdq_jp, html, legacy, stub, done
    entry,                \* which client was called: pug_view or web_fallback
    use_web_fallback,     \* PubChemPugViewClient.use_web_fallback
    web_fallback_client,  \* the injected client: none, legacy (nct_ids_for_cid only) or stub
    payload,              \* the base display record
    ncts,                 \* the set of trial IDs collected so far
    source,               \* the provenance label so far
    headings,             \* the candidate headings still to query, sorted
    calls,                \* every upstream call made so far, with its outcome and the IDs it gave
    result                \* what the call returned or raised

resolverVars ==
    <<pc, entry, use_web_fallback, web_fallback_client, payload, ncts, source, headings, calls, result>>

\* export_cids_nct_dataset (pipeline/cid_to_nct.py)
VARIABLES
    export_pc,        \* "idle", "loop", "done", "raised"
    export_cfg,       \* config
    export_cids,      \* cids
    export_idx,       \* position of the loop over cids (1-based)
    links_rows,       \* buffered link rows
    compounds_rows,   \* buffered compound rows
    export_answers,   \* what the collaborators answered for each CID so far
    out_links,        \* out_dir/cid_nct_links.jsonl
    out_compounds,    \* out_dir/compounds.jsonl
    export_raised     \* the exception that left export_cids_nct_dataset

exportVars ==
    <<export_pc, export_cfg, export_cids, export_idx, links_rows, compounds_rows,
      export_answers, out_links, out_compounds, export_raised>>

\* collect_ctgov_docs (pipeline/collect_ctgov_docs_service.py)
VARIABLES
    upstream,          \* what PubChem answers for each CID
    stage,             \* "stopped", "enumerate", "cids_jsonl", "map_header", "loop", "compound",
                       \* "map_csv", "studies", "finished"
    config,            \* CollectCtgovDocsConfig of the run
    n_runs,            \* runs started on the output directory
    all_resume,        \* whether every run so far had resume=true
    cids_file,         \* out_dir/cids.txt, its lines
    cids_jsonl,        \* out_dir/cids.jsonl
    links_file,        \* out_dir/cid_nct_links.jsonl
    compounds_file,    \* out_dir/compounds.jsonl
    map_csv,           \* out_dir/cid_nct_map.csv, its rows after the header
    studies_file,      \* out_dir/studies.jsonl
    cids, idx,         \* the loop over cids (1-based)
    processed_cids,
    study_cache,
    existing_ncts,
    nct_requested,
    nct_fetched,
    nct_total_mapped,
    rec,               \* the record of the CID being processed
    nct_ids, k,        \* the loop over nct_ids (1-based)
    fetch_log,         \* the IDs get_study was called with in this run, in order
    resolve_log,       \* the CIDs map_cid_to_nct_record was called with in this run
    links_at_start,    \* rows of cid_nct_links.jsonl when the run started
    studies_at_start   \* rows of studies.jsonl when the run started

dirVars == <<cids_file, cids_jsonl, links_file, compounds_file, map_csv, studies_file>>

runVars ==
    <<cids, idx, processed_cids, study_cache, existing_ncts, nct_requested, nct_fetched,
      nct_total_mapped, rec, nct_ids, k, fetch_log, resolve_log>>

collectVars == <<upstream, stage, config, n_runs, all_resume, dirVars, runVars, links_at_start, studies_at_start>>

\* CompoundTrialLinker.link_cid (pipeline/linker.py)
VARIABLES
    ctgov,            \* what ClinicalTrials.gov answers to a search request
    link_pc,          \* "idle", "term", "request", "page", "done"
    link_cfg,         \* LinkerConfig
    link_arg,         \* cid
    syns,             \* the terms, after the IUPAC name was put in front
    term_i,           \* position of the loop over syns (1-based)
    query_mode,       \* "intr" or "term": which iter_studies of _iter_ctgov_by_term runs
    pages,            \* iter_studies: pages requested so far by the running query
    page,             \* iter_studies: the payload of the last search request
    study_i,          \* position of the loop over the studies of the page (1-based)
    results,          \* results
    seen_pairs,       \* seen_pairs
    search_log        \* every search request issued so far, in order

linkerVars ==
    <<ctgov, link_pc, link_cfg, link_arg, syns, term_i, query_mode, pages, page, study_i,
      results, seen_pairs, search_log>>

\* build_dataset_for_cids (pipeline/build_dataset.py)
VARIABLES
    build_pc,          \* "idle", "loop", "links", "done", "raised"
    build_cfg,         \* DatasetBuildConfig
    build_cids,        \* cids
    build_idx,         \* position of the loop over cids (1-based)
    build_compounds,   \* compounds
    build_studies,     \* studies: the dict as its (key, value) pairs in insertion order
    build_links,       \* links
    link_results,      \* what linker.link_cid answered for the CID the loop is at
    build_j,           \* position of the loop over link_results (1-based)
    get_study_log,     \* the IDs get_study was called with, in order
    ds_compounds,      \* out_dir/compounds.jsonl
    ds_links,          \* out_dir/links.jsonl
    ds_studies         \* out_dir/studies.jsonl

datasetVars ==
    <<build_pc, build_cfg, build_cids, build_idx, build_compounds, build_studies, build_links,
      link_results, build_j, get_study_log, ds_compounds, ds_links, ds_studies>>

\* scripts/merge_pubchem_trials_shards.py: main
VARIABLES
    merge_pc,          \* "idle", "loop", "done", "raised"
    shard_dirs,        \* the shard directories, each with the rows of its trials file
    shard_i,           \* position of the loop over shard_dirs (1-based)
    row_i,             \* position of the loop over the rows of the shard (1-based)
    merged_rows,       \* merged_rows
    seen_signatures,   \* seen_signatures
    input_rows,        \* input_rows
    merged_trials,     \* out_dir/trials.jsonl
    summary            \* out_dir/summary.json

mergeVars ==
    <<merge_pc, shard_dirs, shard_i, row_i, merged_rows, seen_signatures, input_rows,
      merged_trials, summary>>

\* scripts/update_pubchem_trials_history.py: main, run after run on one snapshot directory
VARIABLES
    hist_pc,           \* "idle", "prune", "state", "raised"
    hist_args,         \* the arguments of the running (or last) run and the content of --trials-file
    latest_file,       \* --latest-file
    state_file,        \* --state-file
    history_dir,       \* --history-dir: the names of its files
    changed_flag,      \* the file of --changed-flag-path ("" = no file)
    changed,           \* changed
    snapshot_path,     \* snapshot_path ("" for None)
    deleted_snapshots, \* deleted_snapshots
    last_run           \* what the last completed run saw and did

historyVars ==
    <<hist_pc, hist_args, latest_file, state_file, history_dir, changed_flag, changed,
      snapshot_path, deleted_snapshots, last_run>>

\* pubchem/web_fallback: get_normalized_trials, get_normalized_trials_union and the CSV
\* writer of scripts/merge_pubchem_trials_shards.py, called on one list of SDQ rows
VARIABLES
    schema_pc,        \* "idle", "input", "canonical", "aligned", "realigned", "csv"
    sdq_rows,         \* the rows of the SDQ payloads with the collection they were asked from
    canonical_rows,   \* what get_normalized_trials returned
    union_rows,       \* merged in get_normalized_trials_union
    aligned,          \* the rows returned by align_rows_to_union_schema
    ordered_keys,     \* the key list returned with them
    realigned,        \* align_rows_to_union_schema of its own output
    base_first,       \* the preferred header of the CSV writer
    header,           \* _build_union_header
    csv_rows          \* the dict handed to writerow for every row

schemaVars ==
    <<schema_pc, sdq_rows, canonical_rows, union_rows, aligned, ordered_keys, realigned,
      base_first, header, csv_rows>>

\* the retried request wrappers: CTGovClient._get, PubChemClient._get_json,
\* PubChemPugViewClient.get_compound_record
VARIABLES
    http_pc,          \* "idle", "calling", "returned", "raised"
    http_client,      \* "ctgov", "pubchem", "pug_view"; "" when idle
    attempt_number,   \* the attempts made in this call
    http_response,    \* what the last attempt met
    http_raised,      \* the class of the exception the call ended with, "" for none
    http_slept        \* the Retry-After delays slept in this call

httpVars == <<http_pc, http_client, attempt_number, http_response, http_raised, http_slept>>

\* an entry point leaves the state of the others alone
ResolverStep == UNCHANGED <<exportVars, collectVars, linkerVars, datasetVars, mergeVars, historyVars, schemaVars, httpVars>>

ExportStep == UNCHANGED <<resolverVars, collectVars, linkerVars, datasetVars, mergeVars, historyVars, schemaVars, httpVars>>

CollectStep == UNCHANGED <<resolverVars, exportVars, upstream, linkerVars, datasetVars, mergeVars, historyVars, schemaVars, httpVars>>

LinkerStep == UNCHANGED <<resolverVars, exportVars, collectVars, ctgov, datasetVars, mergeVars, historyVars, schemaVars, httpVars>>

DatasetStep == UNCHANGED <<resolverVars, exportVars, collectVars, linkerVars, mergeVars, historyVars, schemaVars, httpVars>>

MergeStep == UNCHANGED <<resolverVars, exportVars, collectVars, linkerVars, datasetVars, historyVars, schemaVars, httpVars>>

HistoryStep == UNCHANGED <<resolverVars, exportVars, collectVars, linkerVars, datasetVars, mergeVars, schemaVars, httpVars>>

SchemaStep == UNCHANGED <<resolverVars, exportVars, collectVars, linkerVars, datasetVars, mergeVars, historyVars, httpVars>>

HttpStep == UNCHANGED <<resolverVars, exportVars, collectVars, linkerVars, datasetVars, mergeVars, historyVars, schemaVars>>

NoResult == [kind |-> "none", ids |-> <<>>, source |-> "", exc |-> ""]

Returned(ids, label) == [kind |-> "return", ids |-> ids, source |-> label, exc |-> ""]

Raised(exc) == [kind |-> "raise", ids |-> <<>>, source |-> "", exc |-> exc]

Call(name, arg, outcome, ids) == [name |-> name, arg |-> arg, outcome |-> outcome, ids |-> ids]

InitResolver ==
    /\ pc = "idle"
    /\ entry = "none"
    /\ use_web_fallback = TRUE
    /\ web_fallback_client = "none"
    /\ payload = JNull
    /\ ncts = {}
    /\ source = ""
    /\ headings = <<>>
    /\ calls = <<>>
    /\ result = NoResult

\* pug_view.py line 154
needs_heading_lookup(n, p) == (n = {}) \/ has_external_clinical_trials_ref(p)

\* pug_view.py line 156: the headings to query, in query order
heading_order(p) == Sorted(candidate_clinical_headings(p))

\* a resolver that runs the web fallback whenever it is enabled
enters_web_fallback_always(n, uwf) == uwf

\* pug_view.py line 163
enters_web_fallback(n, uwf) == (n = {}) /\ uwf

\* pug_view.py lines 177-178
source_after_fallback(n, src, fallback_source) == IF n # {} THEN fallback_source ELSE src

Reverse(q) == [i \in 1..Len(q) |-> q[Len(q) + 1 - i]]

\* a resolver that returns the IDs in descending order
resolver_return_descending(n, src) == Returned(Reverse(Sorted(n)), src)

\* pug_view.py line 180
resolver_return(n, src) == Returned(Sorted(n), src)

\* a web fallback that goes on to the next registry whatever the search gave
sdq_hit_never(ids) == FALSE

\* web_fallback/__init__.py lines 83, 91, 99: a registry that gave IDs ends the search
sdq_hit(ids) == ids # <<>>

\* where the pug_view call goes once the heading loop is over
AfterHeadings(n, src) ==
    IF enters_web_fallback(n, use_web_fallback)
    THEN /\ pc' = (IF web_fallback_client = "none" THEN "sdq_ct" ELSE web_fallback_client)
         /\ result' = result
    ELSE /\ pc' = "done"
         /\ result' = resolver_return(n, src)

\* pug_view.py lines 148-156: the base record, tier 1 and the decision on the heading lookups
PugViewCall(uwf, client) ==
    /\ pc = "idle"
    /\ ResolverStep
    /\ entry' = "pug_view"
    /\ use_web_fallback' = uwf
    /\ web_fallback_client' = client
    /\ \E a \in BaseAnswers :
          IF a.outcome # "ok"
          THEN /\ calls' = <<Call("get_compound_record", "", a.outcome, {})>>
               /\ result' = Raised(PugViewException(a.outcome))
               /\ pc' = "done"
               /\ UNCHANGED <<payload, ncts, source, headings>>
          ELSE LET n == extract_nct_ids_from_payload(a.body)
               IN /\ calls' = <<Call("get_compound_record", "", "ok", n)>>
                  /\ payload' = a.body
                  /\ ncts' = n
                  /\ source' = LabelAnnotations
                  /\ headings' = (IF needs_heading_lookup(n, a.body) THEN heading_order(a.body) ELSE <<>>)
                  /\ pc' = "headings"
                  /\ result' = result

\* pug_view.py lines 156-161: one heading-scoped lookup
HeadingLookup ==
    /\ pc = "headings"
    /\ ResolverStep
    /\ headings # <<>>
    /\ \E a \in HeadingAnswers :
          LET n == IF a.outcome = "ok" THEN extract_nct_ids_from_payload(a.body) ELSE {}
          IN /\ calls' = Append(calls, Call("get_compound_record_by_heading", Head(headings), a.outcome, n))
             /\ IF PugViewException(a.outcome) = "PubChemPugViewError" \/ a.outcome = "ok"
                THEN /\ ncts' = ncts \cup n
                     /\ headings' = Tail(headings)
                     /\ UNCHANGED <<pc, result>>
                ELSE /\ result' = Raised(PugViewException(a.outcome))
                     /\ pc' = "done"
                     /\ UNCHANGED <<ncts, headings>>
    /\ UNCHANGED <<entry, use_web_fallback, web_fallback_client, payload, source>>

\* pug_view.py lines 163-180 when no web fallback runs: the return
HeadingsDone ==
    /\ pc = "headings"
    /\ ResolverStep
    /\ headings = <<>>
    /\ AfterHeadings(ncts, source)
    /\ UNCHANGED <<entry, use_web_fallback, web_fallback_client, payload, ncts, source, headings, calls>>

\* a direct call of PubChemWebFallbackClient.nct_ids_for_cid_with_source
WebFallbackCall ==
    /\ pc = "idle"
    /\ ResolverStep
    /\ entry' = "web_fallback"
    /\ pc' = "sdq_ct"
    /\ UNCHANGED <<use_web_fallback, web_fallback_client, payload, ncts, source, headings, calls, result>>

\* the web fallback client returns (ids, label): to its caller, or into pug_view.py lines 170-180
ClientReturns(ids, label) ==
    IF entry = "web_fallback"
    THEN /\ result' = Returned(ids, label)
         /\ UNCHANGED <<ncts, source>>
    ELSE LET n == ncts \cup SeqToSet(ids)
             src == source_after_fallback(n, source, label)
         IN /\ ncts' = n
            /\ source' = src
            /\ result' = resolver_return(n, src)

\* the web fallback client raises: to its caller, or into pug_view.py lines 175-180
ClientRaises(exc) ==
    /\ IF entry = "pug_view" /\ exc = "PubChemWebFallbackError"
       THEN result' = resolver_return(ncts, source)
       ELSE result' = Raised(exc)
    /\ UNCHANGED <<ncts, source>>

\* web_fallback/__init__.py lines 80-102: one registry search
SdqSearch(at, collection, label, next) ==
    /\ pc = at
    /\ ResolverStep
    /\ \E a \in SdqAnswers :
          LET ids == IF a.outcome = "ok" THEN extract_nct_ids_from_sdq_payload(a.body) ELSE <<>>
          IN /\ calls' = Append(calls, Call("get_sdq_payload", collection, a.outcome, SeqToSet(ids)))
             /\ IF a.outcome = "ok" /\ sdq_hit(ids)
                THEN pc' = "done" /\ ClientReturns(ids, label)
                ELSE IF a.outcome = "ok" \/ WebFallbackException(a.outcome) = "PubChemWebFallbackError"
                THEN pc' = next /\ UNCHANGED <<ncts, source, result>>
                ELSE pc' = "done" /\ ClientRaises(WebFallbackException(a.outcome))
    /\ UNCHANGED <<entry, use_web_fallback, web_fallback_client, payload, headings>>

SdqClinicalTrials == SdqSearch("sdq_ct", "clinicaltrials", LabelSdqCt, "sdq_eu")

SdqEuRegister == SdqSearch("sdq_eu", "clinicaltrials_eu", LabelSdqEu, "sdq_jp")

SdqJapanNiph == SdqSearch("sdq_jp", "clinicaltrials_jp", LabelSdqJp, "html")

\* web_fallback/__init__.py lines 104-108: the compound page
CompoundPageHtml ==
    /\ pc = "html"
    /\ ResolverStep
    /\ \E a \in HtmlAnswers :
          LET ids == IF a.outcome = "ok" THEN extract_nct_ids_from_html(a.body.s) ELSE <<>>
          IN /\ calls' = Append(calls, Call("get_compound_page_html", "", a.outcome, SeqToSet(ids)))
             /\ IF a.outcome # "ok" THEN ClientRaises(WebFallbackException(a.outcome))
                ELSE IF ids # <<>> THEN ClientReturns(ids, LabelHtml)
                ELSE ClientReturns(<<>>, LabelEmpty)
    /\ pc' = "done"
    /\ UNCHANGED <<entry, use_web_fallback, web_fallback_client, payload, headings>>

\* pug_view.py lines 171-173: an injected client without nct_ids_for_cid_with_source
LegacyFallback ==
    /\ pc = "legacy"
    /\ ResolverStep
    /\ \E a \in LegacyAnswers :
          /\ calls' = Append(calls, Call("nct_ids_for_cid", "", a.outcome, SeqToSet(a.ids)))
          /\ IF a.outcome = "ok" THEN ClientReturns(a.ids, LabelLegacy) ELSE ClientRaises(a.outcome)
    /\ pc' = "done"
    /\ UNCHANGED <<entry, use_web_fallback, web_fallback_client, payload, headings>>

\* pug_view.py lines 169-170: an injected client that overrides nct_ids_for_cid_with_source
StubFallback ==
    /\ pc = "stub"
    /\ ResolverStep
    /\ \E a \in StubAnswers :
          /\ calls' = Append(calls, Call("nct_ids_for_cid_with_source", "", a.outcome, SeqToSet(a.ids)))
          /\ IF a.outcome = "ok" THEN ClientReturns(a.ids, a.source) ELSE ClientRaises(a.outcome)
    /\ pc' = "done"
    /\ UNCHANGED <<entry, use_web_fallback, web_fallback_client, payload, headings>>

NextResolver ==
    \/ \E uwf \in BOOLEAN, client \in {"none", "legacy", "stub"} : PugViewCall(uwf, client)
    \/ HeadingLookup
    \/ HeadingsDone
    \/ WebFallbackCall
    \/ SdqClinicalTrials
    \/ SdqEuRegister
    \/ SdqJapanNiph
    \/ CompoundPageHtml
    \/ LegacyFallback
    \/ StubFallback

(***************************************************************************)
(* Properties of the resolver chain                                        *)
(***************************************************************************)
CallIndexes(names) == {i \in 1..Len(calls) : calls[i].name \in names}

HeadingCalls == CallIndexes({"get_compound_record_by_heading"})

WebFallbackCalls ==
    CallIndexes({"get_sdq_payload", "get_compound_page_html", "nct_ids_for_cid", "nct_ids_for_cid_with_source"})

BaseFetched == entry = "pug_view" /\ calls # <<>> /\ calls[1].outcome = "ok"

\* the IDs tier 1 took from the base record
Tier1Ids == calls[1].ids

\* a trial ID: NCT and eight digits, upper case
IsTrialId(x) ==
    /\ Len(x) = 11
    /\ SubSeq(x, 1, 3) = "NCT"
    /\ \A j \in 4..11 : Ch(x, j) \in {"0", "1", "2", "3", "4", "5", "6", "7", "8", "9"}

\* C1 as stated: once tier 1 gave an ID, no later tier is invoked at all
\* (no heading-scoped lookup, no SDQ search, no HTML fetch).
C1_NoLaterTierAfterTier1 ==
    (BaseFetched /\ Tier1Ids # {}) => (HeadingCalls = {} /\ WebFallbackCalls = {})

\* C1 amended: once tier 1 gave an ID, no SDQ search and no HTML fetch is made, and
\* heading-scoped lookups are made only when the base record declares an external
\* clinical-trials table.
C1_NoWebFallbackAfterTier1 ==
    (BaseFetched /\ Tier1Ids # {}) =>
        /\ WebFallbackCalls = {}
        /\ (HeadingCalls # {} => has_external_clinical_trials_ref(payload))

C1_Witness ==
    /\ BaseFetched /\ Tier1Ids # {}
    /\ use_web_fallback
    /\ has_external_clinical_trials_ref(payload)
    /\ HeadingCalls # {}
    /\ result.kind = "return"

\* C2: the chain never raises on a failed tier; a failed fetch counts as an empty
\* tier and total exhaustion gives an empty list and a label.
C2_NeverRaises == result.kind # "raise"

\* the label C3 asks of the tier a call belongs to: each tier and registry its own
TierLabelOk(call, label) ==
    CASE call.name = "get_compound_record" -> label = LabelAnnotations
      [] call.name = "get_compound_record_by_heading" ->
            label \notin {LabelAnnotations, LabelSdqCt, LabelSdqEu, LabelSdqJp, LabelHtml, LabelLegacy, LabelEmpty}
      [] call.name = "get_sdq_payload" /\ call.arg = "clinicaltrials" -> label = LabelSdqCt
      [] call.name = "get_sdq_payload" /\ call.arg = "clinicaltrials_eu" -> label = LabelSdqEu
      [] call.name = "get_sdq_payload" /\ call.arg = "clinicaltrials_jp" -> label = LabelSdqJp
      [] call.name = "get_compound_page_html" -> label = LabelHtml
      [] OTHER -> TRUE

\* C3: the returned label names exactly the tier or registry that produced the
\* returned IDs, and it is the reserved no-result label when no tier produced any.
C3_LabelNamesProducingTier ==
    result.kind = "return" =>
        /\ (result.ids = <<>> => result.source = LabelEmpty)
        /\ \A i \in 1..Len(calls) : calls[i].ids # {} => TierLabelOk(calls[i], result.source)

\* C4: whatever tier answers, an injected web-fallback client included, the returned
\* list holds only trial IDs, is sorted ascending without duplicates, and the label is
\* not empty.
C4_ResultWellFormed ==
    result.kind = "return" =>
        /\ \A i \in 1..Len(result.ids) : IsTrialId(result.ids[i])
        /\ \A i \in 1..(Len(result.ids) - 1) : StrLess(result.ids[i], result.ids[i + 1])
        /\ result.source # ""

\* what the code does keep of C4: every returned list is sorted ascending without
\* duplicates, and a call answered by the repository's own tiers (no injected client)
\* returns only trial IDs and a label that is not empty.
C4_SortedAndOwnTiersWellFormed ==
    result.kind = "return" =>
        /\ \A i \in 1..(Len(result.ids) - 1) : StrLess(result.ids[i], result.ids[i + 1])
        /\ web_fallback_client = "none" =>
              /\ \A i \in 1..Len(result.ids) : IsTrialId(result.ids[i])
              /\ result.source # ""

\* an injected client answered with several strings, one of them given twice
C4_InjectedAnswerReturned ==
    /\ result.kind = "return"
    /\ entry = "pug_view"
    /\ web_fallback_client \in {"legacy", "stub"}
    /\ Len(result.ids) >= 2

RegistryOrder == <<"clinicaltrials", "clinicaltrials_eu", "clinicaltrials_jp", "html">>

\* the requests of the web fallback client, in call order
RECURSIVE FallbackRequests(_)
FallbackRequests(cs) ==
    IF cs = <<>> THEN <<>>
    ELSE IF Head(cs).name = "get_sdq_payload" THEN <<[to |-> Head(cs).arg, ids |-> Head(cs).ids]>> \o FallbackRequests(Tail(cs))
    ELSE IF Head(cs).name = "get_compound_page_html" THEN <<[to |-> "html", ids |-> Head(cs).ids]>> \o FallbackRequests(Tail(cs))
    ELSE FallbackRequests(Tail(cs))

\* C5: the registries are queried in the order ClinicalTrials.gov, EU, Japan, then
\* the compound page; a request is made only when every earlier one gave no ID.
C5_RegistryOrderAndStop ==
    LET reqs == FallbackRequests(calls)
    IN /\ Len(reqs) <= Len(RegistryOrder)
       /\ \A i \in 1..Len(reqs) :
             /\ reqs[i].to = RegistryOrder[i]
             /\ \A j \in 1..(i - 1) : reqs[j].ids = {}

C5_Witness ==
    LET reqs == FallbackRequests(calls)
    IN /\ Len(reqs) = 2
       /\ reqs[1].ids = {}
       /\ reqs[2].ids # {}
       /\ result.kind = "return"
       /\ result.source = LabelSdqEu

\* C6: heading lookups run exactly when tier 1 is empty or an external table is
\* declared; then every candidate heading is queried, a failed query does not
\* abort the others, and the IDs are tier 1's plus those of the answered headings.
C6_HeadingLookups ==
    (BaseFetched /\ (pc # "headings" \/ headings = <<>>)) =>
        LET wanted == IF Tier1Ids = {} \/ has_external_clinical_trials_ref(payload)
                      THEN candidate_clinical_headings(payload) ELSE {}
            found == Tier1Ids \cup UNION {calls[i].ids : i \in {j \in HeadingCalls : calls[j].outcome = "ok"}}
        IN /\ {calls[i].arg : i \in HeadingCalls} = wanted
           /\ result.kind # "raise"
           /\ (WebFallbackCalls = {} => ncts = found)

(***************************************************************************)
(* pipeline/cid_to_nct.py: map_cid_to_nct_record.                          *)
(* The answers of its collaborators for one CID:                           *)
(*   ra  the resolver: [outcome, ids, source, exc]                         *)
(*   la  the term-based linker: [outcome, ids, exc]                        *)
(*   pa  compound_properties: [outcome, inchikey, exc]                     *)
(* An absent "error" key of a row is the empty string.                     *)
(***************************************************************************)
NctA == "NCT00000001"

NctB == "NCT00000002"

ResolverOk(ids, label) == [outcome |-> "ok", ids |-> ids, source |-> label, exc |-> "", msg |-> ""]

ResolverFails(exc, msg) == [outcome |-> "raise", ids |-> <<>>, source |-> "", exc |-> exc, msg |-> msg]

ResolverAnswers ==
    { ResolverOk(<<>>, LabelAnnotations),
      ResolverOk(<<NctA>>, LabelAnnotations),
      ResolverOk(<<NctB>>, LabelSdqCt),
      ResolverOk(<<NctA, NctB>>, LabelAnnotations),
      ResolverFails("PubChemPugViewError", "HTTP 503") }

LinkerFinds(ids) == [outcome |-> "ok", ids |-> ids, exc |-> "", msg |-> ""]

LinkerFails(exc, msg) == [outcome |-> "raise", ids |-> {}, exc |-> exc, msg |-> msg]

LinkerAnswers == { LinkerFinds({}), LinkerFinds({NctB, NctA}), LinkerFails("CTGovError", "HTTP 500") }

NoLinker == [outcome |-> "none", ids |-> {}, exc |-> "", msg |-> ""]

PropsOk(inchikey) == [outcome |-> "ok", inchikey |-> inchikey, exc |-> "", msg |-> ""]

PropsFails(exc, msg) == [outcome |-> "raise", inchikey |-> "", exc |-> exc, msg |-> msg]

PropsAnswers == { PropsOk("KEY"), PropsFails("PubChemError", "HTTP 404") }

\* f"{kind}:{type(e).__name__}:{e}"
ErrorText(kind, a) == kind \o ":" \o a.exc \o ":" \o a.msg

LabelCtgovFallback == "CTGov term-link fallback (no PUG-View NCT IDs)"

\* the mutant loses the captured exception
after_resolver_drops_error(ra, with_source) ==
    IF ra.outcome = "ok"
    THEN [nct_ids |-> ra.ids, source |-> (IF with_source THEN ra.source ELSE LabelAnnotations), link_error |-> ""]
    ELSE [nct_ids |-> <<>>, source |-> LabelAnnotations, link_error |-> ""]

\* cid_to_nct.py lines 174-186: the resolver call
\* with_source: whether the pug_view client has nct_ids_for_cid_with_source
after_resolver(ra, with_source) ==
    IF ra.outcome = "ok"
    THEN [nct_ids |-> ra.ids, source |-> (IF with_source THEN ra.source ELSE LabelAnnotations), link_error |-> ""]
    ELSE [nct_ids |-> <<>>, source |-> LabelAnnotations, link_error |-> ErrorText("pug_view_error", ra)]

runs_linker_when_enabled(ids, enabled) == enabled

\* cid_to_nct.py line 188
runs_linker(ids, enabled) == ids = <<>> /\ enabled

\* cid_to_nct.py lines 188-198: the term-based fallback
after_linker(r, la, use_ctgov_fallback) ==
    IF ~runs_linker(r.nct_ids, use_ctgov_fallback) THEN r
    ELSE IF la.outcome = "ok"
    THEN [nct_ids |-> Sorted(la.ids),
          source |-> (IF la.ids # {} THEN LabelCtgovFallback ELSE r.source),
          link_error |-> r.link_error]
    ELSE [nct_ids |-> r.nct_ids,
          source |-> r.source,
          link_error |-> (IF r.link_error # ""
                          THEN r.link_error \o "|" \o ErrorText("ctgov_fallback_error", la)
                          ELSE ErrorText("ctgov_fallback_error", la))]

\* cid_to_nct.py lines 200-207
link_row(cid, r) ==
    [cid |-> cid, nct_ids |-> r.nct_ids, n_nct |-> Len(r.nct_ids), source |-> r.source, error |-> r.link_error]

\* cid_to_nct.py lines 211-227
compound_row(cid, pa) ==
    [cid |-> cid,
     inchikey |-> (IF pa.outcome = "ok" THEN pa.inchikey ELSE ""),
     error |-> (IF pa.outcome = "raise" THEN ErrorText("compound_props_error", pa) ELSE "")]

\* the exception that leaves map_cid_to_nct_record ("" when it returns): fail_fast re-raises
raised_by_record(cfg, ra, la, pa) ==
    IF ~cfg.fail_fast THEN ""
    ELSE IF ra.outcome = "raise" THEN ra.exc
    ELSE IF runs_linker(after_resolver(ra, cfg.with_source).nct_ids, cfg.use_ctgov_fallback) /\ la.outcome = "raise" THEN la.exc
    ELSE IF cfg.include_compound_props /\ pa.outcome = "raise" THEN pa.exc
    ELSE ""

\* map_cid_to_nct_record(cid, config=cfg, ...): the record it returns
map_cid_to_nct_record(cid, cfg, ra, la, pa) ==
    [link |-> link_row(cid, after_linker(after_resolver(ra, cfg.with_source), la, cfg.use_ctgov_fallback)),
     has_compound |-> cfg.include_compound_props,
     compound |-> compound_row(cid, pa)]

(***************************************************************************)
(* pipeline/cid_to_nct.py: export_cids_nct_dataset.  One step per CID of   *)
(* the loop, then the two files are written from the buffered rows.        *)
(***************************************************************************)
MaxExportLen == 2

\* the cids argument: any list of the two CIDs, repeated CIDs included
ExportInputs == UNION { [1..m -> {38, 51}] : m \in 0..MaxExportLen }

\* CidToNctConfig; with_source: the pug_view client has nct_ids_for_cid_with_source
ExportConfigs ==
    [fail_fast : BOOLEAN, use_ctgov_fallback : BOOLEAN, include_compound_props : BOOLEAN,
     write_jsonl : BOOLEAN, with_source : BOOLEAN]

CidToNctConfig ==
    [fail_fast |-> FALSE, use_ctgov_fallback |-> FALSE, include_compound_props |-> TRUE,
     write_jsonl |-> TRUE, with_source |-> TRUE]

NoProps == [outcome |-> "none", inchikey |-> "", exc |-> "", msg |-> ""]

\* the answers map_cid_to_nct_record can get: a collaborator that is not called answers nothing
LinkerChoices(cfg, ra) ==
    IF (ra.outcome = "raise" /\ cfg.fail_fast)
       \/ ~runs_linker(after_resolver(ra, cfg.with_source).nct_ids, cfg.use_ctgov_fallback)
    THEN {NoLinker} ELSE LinkerAnswers

PropsChoices(cfg, ra, la) ==
    IF (ra.outcome = "raise" /\ cfg.fail_fast) \/ (la.outcome = "raise" /\ cfg.fail_fast)
       \/ ~cfg.include_compound_props
    THEN {NoProps} ELSE PropsAnswers

NoFile == [exists |-> FALSE, rows |-> <<>>]

File(rows) == [exists |-> TRUE, rows |-> rows]

InitExport ==
    /\ export_pc = "idle"
    /\ export_cfg = CidToNctConfig
    /\ export_cids = <<>>
    /\ export_idx = 1
    /\ links_rows = <<>>
    /\ compounds_rows = <<>>
    /\ export_answers = <<>>
    /\ out_links = NoFile
    /\ out_compounds = NoFile
    /\ export_raised = ""

\* cid_to_nct.py lines 84-108
ExportStart(cfg, input) ==
    /\ export_pc = "idle"
    /\ ExportStep
    /\ export_pc' = "loop"
    /\ export_cfg' = cfg
    /\ export_cids' = input
    /\ export_idx' = 1
    /\ links_rows' = <<>>
    /\ compounds_rows' = <<>>
    /\ export_answers' = <<>>
    /\ UNCHANGED <<out_links, out_compounds, export_raised>>

\* cid_to_nct.py line 118
appends_compound(cfg, r) == cfg.include_compound_props /\ r.has_compound

\* cid_to_nct.py lines 109-119: one CID, map_cid_to_nct_record returns
ExportRecord ==
    /\ export_pc = "loop"
    /\ ExportStep
    /\ export_idx <= Len(export_cids)
    /\ \E ra \in ResolverAnswers :
       \E la \in LinkerChoices(export_cfg, ra) :
       \E pa \in PropsChoices(export_cfg, ra, la) :
        LET r == map_cid_to_nct_record(export_cids[export_idx], export_cfg, ra, la, pa) IN
        /\ raised_by_record(export_cfg, ra, la, pa) = ""
        /\ links_rows' = Append(links_rows, r.link)
        /\ compounds_rows' = IF appends_compound(export_cfg, r)
                             THEN Append(compounds_rows, r.compound) ELSE compounds_rows
        /\ export_answers' = Append(export_answers, [ra |-> ra, la |-> la, pa |-> pa])
    /\ export_idx' = export_idx + 1
    /\ UNCHANGED <<export_pc, export_cfg, export_cids, out_links, out_compounds, export_raised>>

\* cid_to_nct.py lines 110-116: map_cid_to_nct_record raises (fail_fast), nothing catches it
ExportRaises ==
    /\ export_pc = "loop"
    /\ ExportStep
    /\ export_idx <= Len(export_cids)
    /\ \E ra \in ResolverAnswers :
       \E la \in LinkerChoices(export_cfg, ra) :
       \E pa \in PropsChoices(export_cfg, ra, la) :
        /\ raised_by_record(export_cfg, ra, la, pa) # ""
        /\ export_raised' = raised_by_record(export_cfg, ra, la, pa)
        /\ export_answers' = Append(export_answers, [ra |-> ra, la |-> la, pa |-> pa])
    /\ export_pc' = "raised"
    /\ UNCHANGED <<export_cfg, export_cids, export_idx, links_rows, compounds_rows, out_links, out_compounds>>

\* cid_to_nct.py lines 124-135: _write_jsonl opens with "w"
ExportWrite ==
    /\ export_pc = "loop"
    /\ ExportStep
    /\ export_idx > Len(export_cids)
    /\ export_pc' = "done"
    /\ out_links' = IF export_cfg.write_jsonl THEN File(links_rows) ELSE out_links
    /\ out_compounds' = IF export_cfg.write_jsonl /\ export_cfg.include_compound_props
                        THEN File(compounds_rows) ELSE out_compounds
    /\ UNCHANGED <<export_cfg, export_cids, export_idx, links_rows, compounds_rows, export_answers, export_raised>>

(***************************************************************************)
(* pipeline/collect_ctgov_docs_service.py: collect_ctgov_docs.             *)
(* The output directory outlives a run; everything else is lost when the   *)
(* process ends.  One action per write to the directory, so that a run     *)
(* can be killed between any two writes.                                   *)
(***************************************************************************)
\* Optional[int] = None
NoneInt == -1

\* nct_fetch_limit when limit_ncts is None: 10**9
DefaultFetchLimit == 1000000000

MaxCid == 2

MaxLimit == 1

MaxRuns == 2

\* PubChemClassificationClient.get_cids(hnid, fmt="TXT"): the two nodes share their compounds
\* node 103 holds one compound, listed twice; node 104 is empty
get_cids(hnid) ==
    IF hnid = 101 THEN [i \in 1..MaxCid |-> i]
    ELSE IF hnid = 102 THEN [i \in 1..MaxCid |-> MaxCid + 1 - i]
    ELSE IF hnid = 103 THEN <<MaxCid, MaxCid>>
    ELSE <<>>

\* what PubChem answers for one CID, the same in every run
CidAnswers ==
    { [ra |-> ResolverOk(<<>>, LabelAnnotations), la |-> LinkerFinds({}), pa |-> PropsOk("KEY")],
      [ra |-> ResolverOk(<<NctB>>, LabelSdqCt), la |-> LinkerFinds({}), pa |-> PropsOk("KEY")],
      [ra |-> ResolverOk(<<NctA, NctB>>, LabelAnnotations), la |-> LinkerFinds({}),
       pa |-> PropsFails("PubChemError", "HTTP 404")],
      [ra |-> ResolverFails("PubChemPugViewError", "HTTP 503"), la |-> LinkerFails("CTGovError", "HTTP 500"),
       pa |-> PropsOk("KEY")] }

Upstreams == [1..MaxCid -> CidAnswers]

NoUpstream == [c \in 1..MaxCid |-> [ra |-> ResolverOk(<<>>, LabelAnnotations), la |-> LinkerFinds({}), pa |-> PropsOk("KEY")]]

\* the answers map_cid_to_nct_record gets from a: a collaborator that is not called answers nothing
linker_answer(cfg, a) == IF LinkerChoices(cfg, a.ra) = {NoLinker} THEN NoLinker ELSE a.la

props_answer(cfg, a) ==
    IF PropsChoices(cfg, a.ra, linker_answer(cfg, a)) = {NoProps} THEN NoProps ELSE a.pa

CollectConfigs ==
    [hnids : {<<101, 102>>}, limit_cids : {NoneInt}, limit_ncts : {NoneInt, 0, MaxLimit},
     use_ctgov_fallback : {FALSE}, resume : BOOLEAN]

\* str(c) of a non-negative int
RECURSIVE IntToStr(_)
IntToStr(n) == IF n < 10 THEN ChrOf(48 + n) ELSE IntToStr(n \div 10) \o ChrOf(48 + (n % 10))

\* int(x) of a string of digits
RECURSIVE StrToInt(_)
StrToInt(x) ==
    IF Len(x) = 1 THEN Ord(x) - 48
    ELSE 10 * StrToInt(SubSeq(x, 1, Len(x) - 1)) + (Ord(Ch(x, Len(x))) - 48)

\* collect_ctgov_docs_service.py lines 99-104: first-seen order, no repeats
RECURSIVE AppendUnseen(_, _)
AppendUnseen(ordered, more) ==
    IF more = <<>> THEN ordered
    ELSE AppendUnseen(IF Head(more) \in SeqToSet(ordered) THEN ordered ELSE Append(ordered, Head(more)),
                      Tail(more))

RECURSIVE ordered_cids(_, _)
ordered_cids(hnids, ordered) ==
    IF hnids = <<>> THEN ordered
    ELSE ordered_cids(Tail(hnids), AppendUnseen(ordered, get_cids(Head(hnids))))

\* ordered_cids[:limit] for limit >= 0
SliceTo(q, limit) == SubSeq(q, 1, IF limit < Len(q) THEN limit ELSE Len(q))

limited_cids_before_dedup(hnids, limit) ==
    LET RECURSIVE every(_)
        every(nodes) == IF nodes = <<>> THEN <<>> ELSE get_cids(Head(nodes)) \o every(Tail(nodes))
    IN  AppendUnseen(<<>>, IF limit # NoneInt THEN SliceTo(every(hnids), limit) ELSE every(hnids))

\* collect_ctgov_docs_service.py lines 97-107: ordered_cids after the limit
limited_cids(hnids, limit) ==
    LET all == ordered_cids(hnids, <<>>)
    IN  IF limit # NoneInt THEN SliceTo(all, limit) ELSE all

\* _fetch_cids_by_hnids: the lines of cids.txt, as write_text + splitlines give them
fetch_cids_by_hnids(hnids, limit) ==
    LET kept == limited_cids(hnids, limit)
    IN  IF kept = <<>> THEN <<"">> ELSE [i \in 1..Len(kept) |-> IntToStr(kept[i])]

\* sorted(S) for a set of int
RECURSIVE sorted_ints(_)
sorted_ints(S) ==
    IF S = {} THEN <<>>
    ELSE LET least == CHOOSE x \in S : \A y \in S : x <= y
         IN  <<least>> \o sorted_ints(S \ {least})

cid_to_hnids_first_node_only(hnids, cid) ==
    LET holds(hnid) == cid \in SeqToSet(get_cids(hnid))
        holders == SelectSeq(hnids, holds)
    IN  IF holders = <<>> THEN {} ELSE {holders[1]}

\* collect_ctgov_docs_service.py lines 99-104: cid_to_hnids[cid]
cid_to_hnids(hnids, cid) == { hnid \in SeqToSet(hnids) : cid \in SeqToSet(get_cids(hnid)) }

\* collect_ctgov_docs_service.py lines 113-116: the rows of cids.jsonl
cids_jsonl_rows(hnids, limit) ==
    LET kept == limited_cids(hnids, limit)
    IN  [i \in 1..Len(kept) |->
            [cid |-> kept[i], source_hnids |-> sorted_ints(cid_to_hnids(hnids, kept[i]))]]

\* collect_ctgov_docs_service.py line 136
RECURSIVE read_cids(_)
read_cids(lines) ==
    IF lines = <<>> THEN <<>>
    ELSE IF Strip(Head(lines)) # "" THEN <<StrToInt(Strip(Head(lines)))>> \o read_cids(Tail(lines))
    ELSE read_cids(Tail(lines))

\* _load_processed_cids: the mutant forgets the file
load_processed_cids_forgets(rows) == {}

load_processed_cids_without_errors(rows) == {rows[i].cid : i \in {j \in 1..Len(rows) : rows[j].error = ""}}

load_processed_cids(rows) == {rows[i].cid : i \in 1..Len(rows)}

\* a study document as CTGovClient.get_study returns it: protocolSection.identificationModule.nctId
StudyDoc(nct) == [nctId |-> nct]

extract_nct_id(study_obj) == study_obj.nctId

\* study_cache[nct] = study_obj
CachePut(cache, nct, study_obj) ==
    [x \in DOMAIN cache \cup {nct} |-> IF x = nct THEN study_obj ELSE cache[x]]

\* _load_study_cache_by_nct: the first row of an ID wins.  The "cid" key of a cached row is
\* overwritten in line 207 before the row is used, so the cache keeps the document.
RECURSIVE load_study_cache_by_nct(_, _)
load_study_cache_by_nct(rows, cache) ==
    IF rows = <<>> THEN cache
    ELSE LET nct == extract_nct_id(Head(rows)) IN
         load_study_cache_by_nct(Tail(rows),
             IF nct # "" /\ nct \notin DOMAIN cache THEN CachePut(cache, nct, StudyDoc(nct)) ELSE cache)

\* collect_ctgov_docs_service.py lines 206-207
out_study(study_obj, cid) == [nctId |-> study_obj.nctId, cid |-> cid]

\* collect_ctgov_docs_service.py line 160
nct_fetch_limit(cfg) == IF cfg.limit_ncts # NoneInt THEN cfg.limit_ncts ELSE DefaultFetchLimit

\* collect_ctgov_docs_service.py lines 153-158: cid_cfg
cid_cfg(cfg) ==
    [fail_fast |-> FALSE, use_ctgov_fallback |-> cfg.use_ctgov_fallback, include_compound_props |-> TRUE,
     write_jsonl |-> TRUE, with_source |-> TRUE]

\* collect_ctgov_docs_service.py line 195: the mutant ignores the cache
needs_fetch_always(cache, existing, nct) == TRUE

needs_fetch(cache, existing, nct) == nct \notin DOMAIN cache /\ nct \notin existing

NoRec == map_cid_to_nct_record(0, CidToNctConfig, ResolverOk(<<>>, ""), NoLinker, NoProps)

NoConfig == [hnids |-> <<>>, limit_cids |-> NoneInt, limit_ncts |-> NoneInt, use_ctgov_fallback |-> FALSE, resume |-> FALSE]

\* the memory of a process that is not running
NoProcess ==
    /\ cids = <<>>
    /\ idx = 1
    /\ processed_cids = {}
    /\ study_cache = <<>>
    /\ existing_ncts = {}
    /\ nct_requested = 0
    /\ nct_fetched = 0
    /\ nct_total_mapped = 0
    /\ rec = NoRec
    /\ nct_ids = <<>>
    /\ k = 1
    /\ fetch_log = <<>>
    /\ resolve_log = <<>>

\* an empty output directory, nothing running, PubChem answering as in w
CollectIdle(w) ==
    /\ upstream = w
    /\ stage = "stopped"
    /\ config = NoConfig
    /\ n_runs = 0
    /\ all_resume = TRUE
    /\ cids_file = <<>>
    /\ cids_jsonl = <<>>
    /\ links_file = <<>>
    /\ compounds_file = <<>>
    /\ map_csv = NoFile
    /\ studies_file = <<>>
    /\ links_at_start = 0
    /\ studies_at_start = 0
    /\ NoProcess

InitCollect == \E w \in Upstreams : CollectIdle(w)

\* collect_ctgov_docs_service.py lines 120-134: the run starts, nothing is written yet;
\* get_cids of the nodes is being called (lines 98-104)
StartRun(cfg) ==
    /\ stage \in {"stopped", "finished"}
    /\ CollectStep
    /\ n_runs < MaxRuns
    /\ stage' = "enumerate"
    /\ config' = cfg
    /\ n_runs' = n_runs + 1
    /\ all_resume' = (all_resume /\ cfg.resume)
    /\ cids' = <<>>
    /\ processed_cids' = {}
    /\ study_cache' = <<>>
    /\ existing_ncts' = {}
    /\ nct_requested' = 0
    /\ nct_fetched' = 0
    /\ nct_total_mapped' = 0
    /\ idx' = 1
    /\ rec' = NoRec
    /\ nct_ids' = <<>>
    /\ k' = 1
    /\ fetch_log' = <<>>
    /\ resolve_log' = <<>>
    /\ links_at_start' = Len(links_file)
    /\ studies_at_start' = Len(studies_file)
    /\ UNCHANGED dirVars

\* collect_ctgov_docs_service.py lines 109-112: cids.txt is rewritten
WriteCidsTxt ==
    /\ stage = "enumerate"
    /\ CollectStep
    /\ cids_file' = fetch_cids_by_hnids(config.hnids, config.limit_cids)
    /\ stage' = "cids_jsonl"
    /\ UNCHANGED <<config, n_runs, all_resume, cids_jsonl, links_file, compounds_file, map_csv,
                   studies_file, runVars, links_at_start, studies_at_start>>

\* collect_ctgov_docs_service.py lines 113-116 and 136-137: cids.jsonl is rewritten, the
\* CIDs are read back from cids.txt
WriteCidsJsonl ==
    /\ stage = "cids_jsonl"
    /\ CollectStep
    /\ cids_jsonl' = cids_jsonl_rows(config.hnids, config.limit_cids)
    /\ cids' = read_cids(cids_file)
    /\ stage' = "map_header"
    /\ UNCHANGED <<config, n_runs, all_resume, cids_file, links_file, compounds_file, map_csv,
                   studies_file, idx, processed_cids, study_cache, existing_ncts, nct_requested,
                   nct_fetched, nct_total_mapped, rec, nct_ids, k, fetch_log, resolve_log,
                   links_at_start, studies_at_start>>

\* collect_ctgov_docs_service.py lines 139-164: the CSV header is written if the file is
\* missing, the caches are loaded when resume is set
WriteMapHeader ==
    /\ stage = "map_header"
    /\ CollectStep
    /\ map_csv' = IF map_csv.exists THEN map_csv ELSE File(<<>>)
    /\ processed_cids' = IF config.resume THEN load_processed_cids(links_file) ELSE {}
    /\ study_cache' = IF config.resume THEN load_study_cache_by_nct(studies_file, <<>>) ELSE <<>>
    /\ existing_ncts' = DOMAIN study_cache'
    /\ stage' = "loop"
    /\ UNCHANGED <<config, n_runs, all_resume, cids_file, cids_jsonl, links_file, compounds_file,
                   studies_file, cids, idx, nct_requested, nct_fetched, nct_total_mapped, rec,
                   nct_ids, k, fetch_log, resolve_log, links_at_start, studies_at_start>>

\* collect_ctgov_docs_service.py lines 168-171
SkipProcessed ==
    /\ stage = "loop"
    /\ CollectStep
    /\ idx <= Len(cids)
    /\ cids[idx] \in processed_cids
    /\ idx' = idx + 1
    /\ UNCHANGED <<stage, config, n_runs, all_resume, dirVars, cids, processed_cids, study_cache,
                   existing_ncts, nct_requested, nct_fetched, nct_total_mapped, rec, nct_ids, k,
                   fetch_log, resolve_log, links_at_start, studies_at_start>>

\* collect_ctgov_docs_service.py lines 173-184: the CID is resolved and its link row appended
ResolveCid ==
    /\ stage = "loop"
    /\ CollectStep
    /\ idx <= Len(cids)
    /\ cids[idx] \notin processed_cids
    /\ rec' = map_cid_to_nct_record(cids[idx], cid_cfg(config), upstream[cids[idx]].ra,
                                     linker_answer(cid_cfg(config), upstream[cids[idx]]),
                                     props_answer(cid_cfg(config), upstream[cids[idx]]))
    /\ nct_ids' = rec'.link.nct_ids
    /\ nct_total_mapped' = nct_total_mapped + Len(nct_ids')
    /\ links_file' = Append(links_file, rec'.link)
    /\ resolve_log' = Append(resolve_log, cids[idx])
    /\ stage' = "compound"
    /\ UNCHANGED <<config, n_runs, all_resume, cids_file, cids_jsonl, compounds_file, map_csv, studies_file,
                   cids, idx, processed_cids, study_cache, existing_ncts, nct_requested,
                   nct_fetched, k, fetch_log, links_at_start, studies_at_start>>

\* collect_ctgov_docs_service.py lines 185-186
WriteCompound ==
    /\ stage = "compound"
    /\ CollectStep
    /\ compounds_file' = IF rec.has_compound THEN Append(compounds_file, rec.compound) ELSE compounds_file
    /\ stage' = "map_csv"
    /\ UNCHANGED <<config, n_runs, all_resume, cids_file, cids_jsonl, links_file, map_csv, studies_file,
                   runVars, links_at_start, studies_at_start>>

\* collect_ctgov_docs_service.py lines 188-191
WriteMapCsv ==
    /\ stage = "map_csv"
    /\ CollectStep
    /\ map_csv' = File(map_csv.rows \o [i \in 1..Len(nct_ids) |-> <<cids[idx], nct_ids[i]>>])
    /\ k' = 1
    /\ stage' = "studies"
    /\ UNCHANGED <<config, n_runs, all_resume, cids_file, cids_jsonl, links_file, compounds_file, studies_file,
                   cids, idx, processed_cids, study_cache, existing_ncts, nct_requested,
                   nct_fetched, nct_total_mapped, rec, nct_ids, fetch_log, resolve_log,
                   links_at_start, studies_at_start>>

\* collect_ctgov_docs_service.py lines 194-197: the limit is reached, break
StudyLimitBreak ==
    /\ stage = "studies"
    /\ CollectStep
    /\ k <= Len(nct_ids)
    /\ needs_fetch(study_cache, existing_ncts, nct_ids[k])
    /\ nct_requested >= nct_fetch_limit(config)
    /\ idx' = idx + 1
    /\ stage' = "loop"
    /\ UNCHANGED <<config, n_runs, all_resume, dirVars, cids, processed_cids, study_cache,
                   existing_ncts, nct_requested, nct_fetched, nct_total_mapped, rec, nct_ids, k,
                   fetch_log, resolve_log, links_at_start, studies_at_start>>

\* collect_ctgov_docs_service.py lines 198-208: get_study returns, the document is cached and written
StudyFetch ==
    /\ stage = "studies"
    /\ CollectStep
    /\ k <= Len(nct_ids)
    /\ needs_fetch(study_cache, existing_ncts, nct_ids[k])
    /\ nct_requested < nct_fetch_limit(config)
    /\ nct_requested' = nct_requested + 1
    /\ fetch_log' = Append(fetch_log, nct_ids[k])
    /\ study_cache' = CachePut(study_cache, nct_ids[k], StudyDoc(nct_ids[k]))
    /\ existing_ncts' = existing_ncts \cup {nct_ids[k]}
    /\ nct_fetched' = nct_fetched + 1
    /\ studies_file' = Append(studies_file, out_study(study_cache'[nct_ids[k]], cids[idx]))
    /\ k' = k + 1
    /\ UNCHANGED <<stage, config, n_runs, all_resume, cids_file, cids_jsonl, links_file, compounds_file, map_csv,
                   cids, idx, processed_cids, nct_total_mapped, rec, nct_ids, resolve_log,
                   links_at_start, studies_at_start>>

\* collect_ctgov_docs_service.py lines 194, 203-208: no fetch; a cached document is written
StudyCached ==
    /\ stage = "studies"
    /\ CollectStep
    /\ k <= Len(nct_ids)
    /\ ~needs_fetch(study_cache, existing_ncts, nct_ids[k])
    /\ studies_file' = IF nct_ids[k] \in DOMAIN study_cache
                       THEN Append(studies_file, out_study(study_cache[nct_ids[k]], cids[idx]))
                       ELSE studies_file
    /\ k' = k + 1
    /\ UNCHANGED <<stage, config, n_runs, all_resume, cids_file, cids_jsonl, links_file, compounds_file, map_csv,
                   cids, idx, processed_cids, study_cache, existing_ncts, nct_requested,
                   nct_fetched, nct_total_mapped, rec, nct_ids, fetch_log, resolve_log,
                   links_at_start, studies_at_start>>

\* collect_ctgov_docs_service.py line 193: the loop over nct_ids ends
CidDone ==
    /\ stage = "studies"
    /\ CollectStep
    /\ k > Len(nct_ids)
    /\ idx' = idx + 1
    /\ stage' = "loop"
    /\ UNCHANGED <<config, n_runs, all_resume, dirVars, cids, processed_cids, study_cache,
                   existing_ncts, nct_requested, nct_fetched, nct_total_mapped, rec, nct_ids, k,
                   fetch_log, resolve_log, links_at_start, studies_at_start>>

\* the memory of the process is gone; the output directory stays as it is
ProcessEnds ==
    /\ config' = NoConfig
    /\ cids' = <<>>
    /\ idx' = 1
    /\ processed_cids' = {}
    /\ study_cache' = <<>>
    /\ existing_ncts' = {}
    /\ nct_requested' = 0
    /\ nct_fetched' = 0
    /\ nct_total_mapped' = 0
    /\ rec' = NoRec
    /\ nct_ids' = <<>>
    /\ k' = 1
    /\ fetch_log' = <<>>
    /\ resolve_log' = <<>>
    /\ links_at_start' = 0
    /\ studies_at_start' = 0
    /\ UNCHANGED <<n_runs, all_resume, dirVars>>

\* collect_ctgov_docs_service.py lines 216-234: the loop over cids ends, the result is returned
FinishRun ==
    /\ stage = "loop"
    /\ CollectStep
    /\ idx > Len(cids)
    /\ stage' = "finished"
    /\ ProcessEnds

\* the process ends between two writes: it is killed, or get_cids (line 99), progress_cb
\* (line 137) or get_study (line 199) raises
Interrupt ==
    /\ stage \in {"enumerate", "cids_jsonl", "map_header", "loop", "compound", "map_csv", "studies"}
    /\ CollectStep
    /\ stage' = "stopped"
    /\ ProcessEnds

(***************************************************************************)
(* CompoundTrialLinker.link_cid (pipeline/linker.py) over the lazy pages   *)
(* of CTGovClient.iter_studies (ctgov/client.py).                          *)
(***************************************************************************)
\* re.sub(r"\s+", " ", s): every run of white space becomes one blank
RECURSIVE CollapseSpaces(_)
CollapseSpaces(s) ==
    IF s = "" THEN ""
    ELSE IF IsSpace(Ch(s, 1)) THEN " " \o CollapseSpaces(LStrip(s))
    ELSE Ch(s, 1) \o CollapseSpaces(SubSeq(s, 2, Len(s)))

\* linker.py lines 11-14 (casefold on ASCII text)
norm_text(s) == Strip(CollapseSpaces(Lower(s)))

\* " ".join(q)
RECURSIVE JoinBlank(_)
JoinBlank(q) ==
    IF q = <<>> THEN ""
    ELSE IF Len(q) = 1 THEN q[1]
    ELSE q[1] \o " " \o JoinBlank(Tail(q))

\* A study object of a search page: protocolSection.identificationModule.nctId, the
\* top-level keys nctId, NCTId and nct_id, briefTitle, officialTitle,
\* statusModule.overallStatus, conditionsModule.conditions and the intervention names
\* ("" = absent or not a str, <<>> = absent or not a list).
StudyObject(pid, top, upper_key, snake_key, title, official, status, conditions, names) ==
    [protocol_nctId |-> pid, nctId |-> top, NCTId |-> upper_key, nct_id |-> snake_key,
     briefTitle |-> title, officialTitle |-> official, overallStatus |-> status,
     conditions |-> conditions, names |-> names]

\* a study with the ID, the brief title and the intervention names only
Study(pid, top, title, names) == StudyObject(pid, top, "", "", title, "", "", <<>>, names)

\* linker.py lines 47-57; "" stands for None
link_extract_nct_id(study_obj) ==
    IF Strip(study_obj.protocol_nctId) # "" THEN Strip(study_obj.protocol_nctId)
    ELSE IF Strip(study_obj.nctId) # "" THEN Strip(study_obj.nctId)
    ELSE IF Strip(study_obj.NCTId) # "" THEN Strip(study_obj.NCTId)
    ELSE IF Strip(study_obj.nct_id) # "" THEN Strip(study_obj.nct_id)
    ELSE ""

\* linker.py lines 59-84: title, official title, status, conditions, names
extract_text_blob(study_obj) ==
    norm_text(JoinBlank(<<study_obj.briefTitle, study_obj.officialTitle, study_obj.overallStatus,
                          JoinBlank(study_obj.conditions), JoinBlank(study_obj.names)>>))

\* [^a-z0-9] of the pattern at linker.py line 98
IsTermChar(c) == IsLower(c) \/ IsDigit(c)

\* linker.py lines 98-99: re.search(r"(^|[^a-z0-9])" + re.escape(t) + r"([^a-z0-9]|$)", blob)
whole_word_match(t, blob) ==
    \E i \in 1..Len(blob) :
        /\ LitAt(blob, i, t)
        /\ i = 1 \/ ~IsTermChar(Ch(blob, i - 1))
        /\ i + Len(t) > Len(blob) \/ ~IsTermChar(Ch(blob, i + Len(t)))

ReasonFound == "term_found_in_core_fields(+2)"

ReasonWholeWord == "term_whole_word_match(+1)"

\* linker.py lines 86-103
score(term, study_obj) ==
    LET blob == extract_text_blob(study_obj)
        t == norm_text(term)
        found == t # "" /\ Contains(blob, t)
        whole == t # "" /\ whole_word_match(t, blob)
    IN  [score |-> (IF found THEN 2 ELSE 0) + (IF whole THEN 1 ELSE 0),
         reasons |-> (IF found THEN <<ReasonFound>> ELSE <<>>) \o (IF whole THEN <<ReasonWholeWord>> ELSE <<>>)]

NctC == "NCT00000003"

DocAspirin == Study(NctA, "", "Aspirin   in Adults", <<>>)

DocAspirins == Study(" NCT00000002 ", "", "Low dose", <<"Aspirins", "Placebo">>)

DocNoId == Study(" ", "", "aspirin", <<>>)

DocPlacebo == Study("NCT00000004", "", "Placebo only", <<>>)

DocTopLevelId == Study("", NctC, "ASPIRIN/placebo", <<>>)

NctD == "NCT00000005"

NctE == "NCT00000006"

\* the ID under the key NCTId after a blank nctId, the term in the official title only
DocUpperKeyId == StudyObject("", " ", NctD, "", "Placebo only", "Aspirin Trial", "", <<>>, <<>>)

\* the ID under the key nct_id, the term in the conditions only, a status
DocSnakeKeyId ==
    StudyObject("", "", "", " NCT00000006", "Placebo only", "", "RECRUITING", <<"Fever", "Aspirin Allergy">>, <<>>)

\* What a stub of CTGovClient.search_studies answers: the pages of the
\* intervention query and of the free-text query, whatever the term.
CtgovStub(intr_pages, term_pages) == [intr |-> intr_pages, term |-> term_pages]

NoCtgov == CtgovStub(<<>>, <<>>)

CtgovStubs ==
    { NoCtgov,
      CtgovStub(<< <<DocAspirin>> >>, << <<DocAspirin>> >>),
      CtgovStub(<< <<DocAspirins, DocAspirin>>, <<DocAspirin, DocPlacebo>> >>,
                << <<DocNoId, DocAspirin, DocTopLevelId>>, <<DocAspirins>> >>),
      CtgovStub(<< <<DocTopLevelId, DocAspirin, DocAspirins>>, <<DocPlacebo>> >>,
                << <<DocAspirins>> >>),
      CtgovStub(<< <<DocUpperKeyId, DocPlacebo>> >>,
                << <<DocSnakeKeyId, DocUpperKeyId>> >>) }

\* search_studies for the n-th page of a query: its studies and whether a
\* nextPageToken comes with them
search_studies(stub, mode, n) ==
    [studies |-> IF n <= Len(stub[mode]) THEN stub[mode][n] ELSE <<>>,
     nextPageToken |-> n < Len(stub[mode])]

NoPage == [studies |-> <<>>, nextPageToken |-> FALSE]

\* ctgov/client.py lines 278-283: whether iter_studies asks for another page
\* after n pages
wants_next_page(payload_n, n, max_pages) == payload_n.nextPageToken /\ ~(n >= max_pages)

MaxLinks == 2

MaxPages == 2

MinScores == {0, 2, 3, 5}

LinkerConfigs ==
    [min_score : MinScores, max_links_per_cid : 0..MaxLinks, ctgov_max_pages_per_term : 1..MaxPages]

\* what PubChemClient.synonyms answers
SynonymLists ==
    { <<>>, <<"Aspirin">>, <<"asp", "Aspirin">>, <<"  ", "ASPIRIN ", "asp">>, <<"ibuprofen", "aspirin">> }

\* props.get("IUPACName")
IupacNames == { JNull, JStr(" asp "), JStr("2-acetyloxybenzoic acid"), JStr("Aspirin") }

\* linker.py lines 124-127
with_iupac(terms, iupac) ==
    IF iupac.t = "str" /\ Strip(iupac.s) # ""
       /\ Len(iupac.s) <= 40 /\ iupac.s \notin SeqToSet(terms)
    THEN <<Strip(iupac.s)>> \o terms
    ELSE terms

LinkResult(cid, nct, term, mode, sc) ==
    [cid |-> cid, nct_id |-> nct,
     evidence |-> [term |-> term, query_mode |-> mode, score |-> sc.score, reasons |-> sc.reasons]]

\* linker.py line 154
cap_reached(n_results, cfg) == n_results >= cfg.max_links_per_cid

\* ctgov/client.py lines 250-283: the studies iter_studies yields from page n
\* on when it is consumed to its end
RECURSIVE iter_studies_from(_, _, _, _)
iter_studies_from(stub, mode, n, max_pages) ==
    LET payload_n == search_studies(stub, mode, n)
    IN  payload_n.studies \o
        (IF wants_next_page(payload_n, n, max_pages)
         THEN iter_studies_from(stub, mode, n + 1, max_pages)
         ELSE <<>>)

iter_studies(stub, mode, max_pages) == iter_studies_from(stub, mode, 1, max_pages)

\* linker.py lines 105-118: the intervention query, then the free-text query
iter_ctgov_by_term(stub, term, max_pages) ==
    [i \in 1..Len(iter_studies(stub, "intr", max_pages)) |->
        [term |-> term, mode |-> "intr", study |-> iter_studies(stub, "intr", max_pages)[i]]]
    \o
    [i \in 1..Len(iter_studies(stub, "term", max_pages)) |->
        [term |-> term, mode |-> "term", study |-> iter_studies(stub, "term", max_pages)[i]]]

\* linker.py lines 132-137: every (term, mode, study) the two loops of link_cid
\* visit when nothing stops them
RECURSIVE occurrences(_, _, _)
occurrences(stub, terms, max_pages) ==
    IF terms = <<>> THEN <<>>
    ELSE (IF Strip(Head(terms)) = "" THEN <<>>
          ELSE iter_ctgov_by_term(stub, Strip(Head(terms)), max_pages))
         \o occurrences(stub, Tail(terms), max_pages)

NoLinkerConfig == [min_score |-> 0, max_links_per_cid |-> 0, ctgov_max_pages_per_term |-> 0]

LinkerIdle(stub) ==
    /\ ctgov = stub
    /\ link_pc = "idle"
    /\ link_cfg = NoLinkerConfig
    /\ link_arg = 0
    /\ syns = <<>>
    /\ term_i = 0
    /\ query_mode = ""
    /\ pages = 0
    /\ page = NoPage
    /\ study_i = 0
    /\ results = <<>>
    /\ seen_pairs = {}
    /\ search_log = <<>>

InitLinker == \E stub \in CtgovStubs : LinkerIdle(stub)

\* the term of the running iteration, linker.py line 133
current_term == Strip(syns[term_i])

\* linker.py lines 120-131: link_cid up to the loop over the terms
LinkCid(cid, cfg, terms, iupac) ==
    /\ link_pc = "idle"
    /\ LinkerStep
    /\ link_pc' = "term"
    /\ link_cfg' = cfg
    /\ link_arg' = cid
    /\ syns' = with_iupac(terms, iupac)
    /\ term_i' = 1
    /\ results' = <<>>
    /\ seen_pairs' = {}
    /\ UNCHANGED <<query_mode, pages, page, study_i, search_log>>

\* linker.py lines 132-135: a blank term is skipped
SkipBlankTerm ==
    /\ link_pc = "term"
    /\ LinkerStep
    /\ term_i <= Len(syns)
    /\ current_term = ""
    /\ term_i' = term_i + 1
    /\ UNCHANGED <<link_pc, link_cfg, link_arg, syns, query_mode, pages, page, study_i,
                   results, seen_pairs, search_log>>

\* linker.py line 137 and lines 106-111: the intervention query of the term starts
StartTerm ==
    /\ link_pc = "term"
    /\ LinkerStep
    /\ term_i <= Len(syns)
    /\ current_term # ""
    /\ link_pc' = "request"
    /\ query_mode' = "intr"
    /\ pages' = 0
    /\ UNCHANGED <<link_cfg, link_arg, syns, term_i, page, study_i, results, seen_pairs, search_log>>

\* ctgov/client.py lines 254-269: iter_studies requests the next page
SearchRequest ==
    /\ link_pc = "request"
    /\ LinkerStep
    /\ search_log' = Append(search_log, [term |-> current_term, mode |-> query_mode, page |-> pages + 1])
    /\ page' = search_studies(ctgov, query_mode, pages + 1)
    /\ study_i' = 1
    /\ link_pc' = "page"
    /\ UNCHANGED <<link_cfg, link_arg, syns, term_i, query_mode, pages, results, seen_pairs>>

qualifies_any_score(study_obj) ==
    /\ link_extract_nct_id(study_obj) # ""
    /\ <<link_arg, link_extract_nct_id(study_obj)>> \notin seen_pairs

qualifies_again(study_obj) ==
    /\ link_extract_nct_id(study_obj) # ""
    /\ ~(score(current_term, study_obj).score < link_cfg.min_score)

\* whether link_cid keeps the study the loop is at, linker.py lines 138-149
qualifies(study_obj) ==
    /\ link_extract_nct_id(study_obj) # ""
    /\ ~(score(current_term, study_obj).score < link_cfg.min_score)
    /\ <<link_arg, link_extract_nct_id(study_obj)>> \notin seen_pairs

\* linker.py lines 138-149: a study without ID, below min_score or already linked
SkipStudy ==
    /\ link_pc = "page"
    /\ LinkerStep
    /\ study_i <= Len(page.studies)
    /\ ~qualifies(page.studies[study_i])
    /\ study_i' = study_i + 1
    /\ UNCHANGED <<link_pc, link_cfg, link_arg, syns, term_i, query_mode, pages, page,
                   results, seen_pairs, search_log>>

\* linker.py lines 150-155: the link is appended, and link_cid returns at the cap
AppendLink ==
    /\ link_pc = "page"
    /\ LinkerStep
    /\ study_i <= Len(page.studies)
    /\ qualifies(page.studies[study_i])
    /\ LET study_obj == page.studies[study_i]
           nct == link_extract_nct_id(study_obj)
       IN  /\ seen_pairs' = seen_pairs \cup {<<link_arg, nct>>}
           /\ results' = Append(results, LinkResult(link_arg, nct, current_term, query_mode,
                                                    score(current_term, study_obj)))
    /\ link_pc' = IF cap_reached(Len(results) + 1, link_cfg) THEN "done" ELSE "page"
    /\ study_i' = study_i + 1
    /\ UNCHANGED <<link_cfg, link_arg, syns, term_i, query_mode, pages, page, search_log>>

\* ctgov/client.py lines 278-283 and linker.py lines 113-118: after the last
\* study of a page comes the next page, the free-text query or the next term
PageDone ==
    /\ link_pc = "page"
    /\ LinkerStep
    /\ study_i > Len(page.studies)
    /\ IF wants_next_page(page, pages + 1, link_cfg.ctgov_max_pages_per_term)
       THEN /\ pages' = pages + 1
            /\ link_pc' = "request"
            /\ UNCHANGED <<query_mode, term_i>>
       ELSE IF query_mode = "intr"
       THEN /\ pages' = 0
            /\ query_mode' = "term"
            /\ link_pc' = "request"
            /\ UNCHANGED term_i
       ELSE /\ pages' = 0
            /\ term_i' = term_i + 1
            /\ link_pc' = "term"
            /\ UNCHANGED query_mode
    /\ UNCHANGED <<link_cfg, link_arg, syns, page, study_i, results, seen_pairs, search_log>>

\* linker.py line 157: every term was searched
LinkReturn ==
    /\ link_pc = "term"
    /\ LinkerStep
    /\ term_i > Len(syns)
    /\ link_pc' = "done"
    /\ UNCHANGED <<link_cfg, link_arg, syns, term_i, query_mode, pages, page, study_i,
                   results, seen_pairs, search_log>>

(***************************************************************************)
(* pipeline/build_dataset.py: build_dataset_for_cids.  One step per CID    *)
(* (compound row and link_cid call), one per link of the CID, then the     *)
(* three files are written from the buffers.                               *)
(***************************************************************************)
MaxBuildLen == 2

\* the cids argument: any list of the two CIDs, repeated CIDs included
BuildInputs == UNION { [1..m -> {38, 51}] : m \in 0..MaxBuildLen }

DatasetBuildConfigs == [write_jsonl : BOOLEAN]

\* what linker.link_cid answers for a CID: the trial IDs of its links, in order
LinkedIds == { <<>>, <<NctA>>, <<NctB, NctA>>, <<NctA, NctA>> }

link_cid_answer(cid, ids) ==
    [i \in 1..Len(ids) |->
        LinkResult(cid, ids[i], "Aspirin", "term", [score |-> 3, reasons |-> <<ReasonFound, ReasonWholeWord>>])]

\* build_dataset.py lines 53-61
dataset_compound_row(cid) == [cid |-> cid, inchikey |-> "KEY", synonyms |-> <<"Aspirin">>]

\* build_dataset.py lines 65-74
dataset_link_row(lr) ==
    [cid |-> lr.cid, nct_id |-> lr.nct_id, match_term |-> lr.evidence.term,
     query_mode |-> lr.evidence.query_mode, score |-> lr.evidence.score, reasons |-> lr.evidence.reasons]

\* the keys of the studies dict
study_keys(pairs) == { pairs[i].key : i \in 1..Len(pairs) }

not_in_studies_always(nct, pairs) == TRUE

\* build_dataset.py line 76
not_in_studies(nct, pairs) == nct \notin study_keys(pairs)

\* studies.values()
study_values(pairs) == [i \in 1..Len(pairs) |-> pairs[i].value]

DatasetIdle ==
    /\ build_pc = "idle"
    /\ build_cfg = [write_jsonl |-> TRUE]
    /\ build_cids = <<>>
    /\ build_idx = 1
    /\ build_compounds = <<>>
    /\ build_studies = <<>>
    /\ build_links = <<>>
    /\ link_results = <<>>
    /\ build_j = 1
    /\ get_study_log = <<>>
    /\ ds_compounds = NoFile
    /\ ds_links = NoFile
    /\ ds_studies = NoFile

\* build_dataset.py lines 39-47
BuildStart(cfg, input) ==
    /\ build_pc = "idle"
    /\ DatasetStep
    /\ build_pc' = "loop"
    /\ build_cfg' = cfg
    /\ build_cids' = input
    /\ UNCHANGED <<build_idx, build_compounds, build_studies, build_links, link_results, build_j,
                   get_study_log, ds_compounds, ds_links, ds_studies>>

\* build_dataset.py lines 49-63: the compound row and the link_cid call of a CID
BuildCompound ==
    /\ build_pc = "loop"
    /\ DatasetStep
    /\ build_idx <= Len(build_cids)
    /\ build_compounds' = Append(build_compounds, dataset_compound_row(build_cids[build_idx]))
    /\ \E ids \in LinkedIds : link_results' = link_cid_answer(build_cids[build_idx], ids)
    /\ build_j' = 1
    /\ build_pc' = "links"
    /\ UNCHANGED <<build_cfg, build_cids, build_idx, build_studies, build_links, get_study_log,
                   ds_compounds, ds_links, ds_studies>>

\* build_dataset.py lines 50-51: compound_properties or synonyms raises, nothing is caught
BuildRaises ==
    /\ build_pc = "loop"
    /\ DatasetStep
    /\ build_idx <= Len(build_cids)
    /\ build_pc' = "raised"
    /\ UNCHANGED <<build_cfg, build_cids, build_idx, build_compounds, build_studies, build_links,
                   link_results, build_j, get_study_log, ds_compounds, ds_links, ds_studies>>

\* build_dataset.py lines 53-63: link_cid raises after the compound row is buffered,
\* nothing is caught
BuildLinkCidRaises ==
    /\ build_pc = "loop"
    /\ DatasetStep
    /\ build_idx <= Len(build_cids)
    /\ build_compounds' = Append(build_compounds, dataset_compound_row(build_cids[build_idx]))
    /\ build_pc' = "raised"
    /\ UNCHANGED <<build_cfg, build_cids, build_idx, build_studies, build_links,
                   link_results, build_j, get_study_log, ds_compounds, ds_links, ds_studies>>

\* build_dataset.py lines 64-77: a link whose trial is not in studies is fetched
BuildLinkFetch ==
    /\ build_pc = "links"
    /\ DatasetStep
    /\ build_j <= Len(link_results)
    /\ not_in_studies(link_results[build_j].nct_id, build_studies)
    /\ build_links' = Append(build_links, dataset_link_row(link_results[build_j]))
    /\ get_study_log' = Append(get_study_log, link_results[build_j].nct_id)
    /\ build_studies' = Append(build_studies, [key |-> link_results[build_j].nct_id,
                                                value |-> StudyDoc(link_results[build_j].nct_id)])
    /\ build_j' = build_j + 1
    /\ UNCHANGED <<build_pc, build_cfg, build_cids, build_idx, build_compounds, link_results,
                   ds_compounds, ds_links, ds_studies>>

\* build_dataset.py line 77: get_study raises, nothing is caught
BuildFetchRaises ==
    /\ build_pc = "links"
    /\ DatasetStep
    /\ build_j <= Len(link_results)
    /\ not_in_studies(link_results[build_j].nct_id, build_studies)
    /\ build_links' = Append(build_links, dataset_link_row(link_results[build_j]))
    /\ get_study_log' = Append(get_study_log, link_results[build_j].nct_id)
    /\ build_pc' = "raised"
    /\ UNCHANGED <<build_cfg, build_cids, build_idx, build_compounds, build_studies, link_results,
                   build_j, ds_compounds, ds_links, ds_studies>>

\* build_dataset.py lines 64-76: a link whose trial is in studies already
BuildLinkCached ==
    /\ build_pc = "links"
    /\ DatasetStep
    /\ build_j <= Len(link_results)
    /\ ~not_in_studies(link_results[build_j].nct_id, build_studies)
    /\ build_links' = Append(build_links, dataset_link_row(link_results[build_j]))
    /\ build_j' = build_j + 1
    /\ UNCHANGED <<build_pc, build_cfg, build_cids, build_idx, build_compounds, build_studies,
                   link_results, get_study_log, ds_compounds, ds_links, ds_studies>>

\* build_dataset.py line 64: the links of the CID are exhausted
BuildCidDone ==
    /\ build_pc = "links"
    /\ DatasetStep
    /\ build_j > Len(link_results)
    /\ build_idx' = build_idx + 1
    /\ build_pc' = "loop"
    /\ UNCHANGED <<build_cfg, build_cids, build_compounds, build_studies, build_links, link_results,
                   build_j, get_study_log, ds_compounds, ds_links, ds_studies>>

\* build_dataset.py lines 79-89
BuildWrite ==
    /\ build_pc = "loop"
    /\ DatasetStep
    /\ build_idx > Len(build_cids)
    /\ build_pc' = "done"
    /\ IF build_cfg.write_jsonl
       THEN /\ ds_compounds' = File(build_compounds)
            /\ ds_links' = File(build_links)
            /\ ds_studies' = File(study_values(build_studies))
       ELSE UNCHANGED <<ds_compounds, ds_links, ds_studies>>
    /\ UNCHANGED <<build_cfg, build_cids, build_idx, build_compounds, build_studies, build_links,
                   link_results, build_j, get_study_log>>

(***************************************************************************)
(* scripts/merge_pubchem_trials_shards.py.  A row is a Python dict: its    *)
(* (key, value) pairs in insertion order.                                  *)
(***************************************************************************)
JInt(n) == [t |-> "int", n |-> n]

Pair(key, value) == [key |-> key, value |-> value]

row_keys(row) == { row[i].key : i \in 1..Len(row) }

\* row.get(key); JNull when the key is absent
row_get(row, key) ==
    IF key \in row_keys(row)
    THEN row[CHOOSE i \in 1..Len(row) : row[i].key = key].value
    ELSE JNull

\* json.dumps of a str without escapes, of an int >= 0 or of None
json_dumps_value(v) ==
    IF v.t = "str" THEN "\"" \o v.s \o "\""
    ELSE IF v.t = "int" THEN IntToStr(v.n)
    ELSE "null"

\* the "key":value items of a dict for the given keys, joined by commas
RECURSIVE json_items(_, _)
json_items(row, keys) ==
    IF keys = <<>> THEN ""
    ELSE "\"" \o Head(keys) \o "\":" \o json_dumps_value(row_get(row, Head(keys)))
         \o (IF Len(keys) > 1 THEN "," ELSE "") \o json_items(row, Tail(keys))

row_signature_unsorted(row) == "{" \o json_items(row, [i \in 1..Len(row) |-> row[i].key]) \o "}"

\* merge_pubchem_trials_shards.py lines 48-50: json.dumps(row, sort_keys=True, separators=(",", ":"))
row_signature(row) == "{" \o json_items(row, Sorted(row_keys(row))) \o "}"

RowA == <<Pair("cid", JInt(11)), Pair("id", JStr("NCT00000011")), Pair("title", JStr("Trial 11"))>>

\* RowA with its keys in another order
RowAReordered == <<Pair("id", JStr("NCT00000011")), Pair("title", JStr("Trial 11")), Pair("cid", JInt(11))>>

\* the trial of RowA with another title
RowARetitled == <<Pair("cid", JInt(11)), Pair("id", JStr("NCT00000011")), Pair("title", JStr("Trial 11b"))>>

RowB == <<Pair("cid", JInt(12)), Pair("id", JStr("NCT00000012"))>>

TrialRows == { RowA, RowAReordered, RowARetitled, RowB }

MaxShardRows == 2

\* a shard directory with a trials.jsonl (or trials.json) of the given rows
Shard(rows) == [exists |-> TRUE, rows |-> rows]

\* a shard directory with neither file
EmptyShardDir == [exists |-> FALSE, rows |-> <<>>]

ShardDirs == { Shard(rows) : rows \in UNION { [1..m -> TrialRows] : m \in 0..MaxShardRows } } \cup { EmptyShardDir }

\* --shard-dirs: no, one or two directories
ShardLists == { <<>> } \cup { <<a>> : a \in ShardDirs } \cup { <<a, b>> : a \in ShardDirs, b \in ShardDirs }

\* merge_pubchem_trials_shards.py line 133
merged_cids(rows) == { row_get(rows[i], "cid").n : i \in { j \in 1..Len(rows) : row_get(rows[j], "cid").t = "int" } }

NoSummary == [n_shards |-> 0, n_input_rows |-> 0, n_rows |-> 0, n_cids |-> 0]

MergeIdle ==
    /\ merge_pc = "idle"
    /\ shard_dirs = <<>>
    /\ shard_i = 1
    /\ row_i = 1
    /\ merged_rows = <<>>
    /\ seen_signatures = {}
    /\ input_rows = 0
    /\ merged_trials = NoFile
    /\ summary = NoSummary

\* merge_pubchem_trials_shards.py lines 86-96; no shard directory: ValueError
MergeStart(dirs) ==
    /\ merge_pc = "idle"
    /\ MergeStep
    /\ merge_pc' = IF dirs = <<>> THEN "raised" ELSE "loop"
    /\ shard_dirs' = dirs
    /\ UNCHANGED <<shard_i, row_i, merged_rows, seen_signatures, input_rows, merged_trials, summary>>

\* merge_pubchem_trials_shards.py line 45: FileNotFoundError
MergeShardMissing ==
    /\ merge_pc = "loop"
    /\ MergeStep
    /\ shard_i <= Len(shard_dirs)
    /\ ~shard_dirs[shard_i].exists
    /\ merge_pc' = "raised"
    /\ UNCHANGED <<shard_dirs, shard_i, row_i, merged_rows, seen_signatures, input_rows, merged_trials, summary>>

is_duplicate_never(sig, seen) == FALSE

\* merge_pubchem_trials_shards.py line 101
is_duplicate(sig, seen) == sig \in seen

at_row == merge_pc = "loop" /\ shard_i <= Len(shard_dirs) /\ shard_dirs[shard_i].exists
              /\ row_i <= Len(shard_dirs[shard_i].rows)

\* merge_pubchem_trials_shards.py lines 98-104: a row with a new signature
MergeKeep ==
    /\ at_row
    /\ MergeStep
    /\ ~is_duplicate(row_signature(shard_dirs[shard_i].rows[row_i]), seen_signatures)
    /\ input_rows' = input_rows + 1
    /\ seen_signatures' = seen_signatures \cup { row_signature(shard_dirs[shard_i].rows[row_i]) }
    /\ merged_rows' = Append(merged_rows, shard_dirs[shard_i].rows[row_i])
    /\ row_i' = row_i + 1
    /\ UNCHANGED <<merge_pc, shard_dirs, shard_i, merged_trials, summary>>

\* merge_pubchem_trials_shards.py lines 98-102: a row whose signature was seen
MergeSkip ==
    /\ at_row
    /\ MergeStep
    /\ is_duplicate(row_signature(shard_dirs[shard_i].rows[row_i]), seen_signatures)
    /\ input_rows' = input_rows + 1
    /\ row_i' = row_i + 1
    /\ UNCHANGED <<merge_pc, shard_dirs, shard_i, merged_rows, seen_signatures, merged_trials, summary>>

\* merge_pubchem_trials_shards.py lines 97-98: the rows of the shard are exhausted
MergeShardDone ==
    /\ merge_pc = "loop"
    /\ MergeStep
    /\ shard_i <= Len(shard_dirs)
    /\ shard_dirs[shard_i].exists
    /\ row_i > Len(shard_dirs[shard_i].rows)
    /\ shard_i' = shard_i + 1
    /\ row_i' = 1
    /\ UNCHANGED <<merge_pc, shard_dirs, merged_rows, seen_signatures, input_rows, merged_trials, summary>>

\* merge_pubchem_trials_shards.py lines 106-159
MergeWrite ==
    /\ merge_pc = "loop"
    /\ MergeStep
    /\ shard_i > Len(shard_dirs)
    /\ merged_trials' = File(merged_rows)
    /\ summary' = [n_shards |-> Len(shard_dirs), n_input_rows |-> input_rows,
                   n_rows |-> Len(merged_rows), n_cids |-> Cardinality(merged_cids(merged_rows))]
    /\ merge_pc' = "done"
    /\ UNCHANGED <<shard_dirs, shard_i, row_i, merged_rows, seen_signatures, input_rows>>

(***************************************************************************)
(* scripts/update_pubchem_trials_history.py.  A point in time is a day,    *)
(* numbered as date.toordinal numbers it, and a second of that day; all    *)
(* points are in UTC.                                                      *)
(***************************************************************************)
\* s.replace(c, "") for a character c
RECURSIVE RemoveChar(_, _)
RemoveChar(s, c) ==
    IF s = "" THEN ""
    ELSE (IF Ch(s, 1) = c THEN "" ELSE Ch(s, 1)) \o RemoveChar(SubSeq(s, 2, Len(s)), c)

\* update_pubchem_trials_history.py line 101
safe_ts(ts) == RemoveChar(RemoveChar(ts, ":"), "-")

\* ts.replace("Z", "+00:00")
RECURSIVE ReplaceZ(_)
ReplaceZ(s) ==
    IF s = "" THEN ""
    ELSE (IF Ch(s, 1) = "Z" THEN "+00:00" ELSE Ch(s, 1)) \o ReplaceZ(SubSeq(s, 2, Len(s)))

AllDigits(s) == \A i \in 1..Len(s) : IsDigit(Ch(s, i))

is_leap(y) == y % 4 = 0 /\ (y % 100 # 0 \/ y % 400 = 0)

days_in_month(y, mo) ==
    IF mo = 2 THEN (IF is_leap(y) THEN 29 ELSE 28)
    ELSE IF mo \in {4, 6, 9, 11} THEN 30 ELSE 31

RECURSIVE days_before_month(_, _)
days_before_month(y, mo) == IF mo = 1 THEN 0 ELSE days_before_month(y, mo - 1) + days_in_month(y, mo - 1)

\* date(y, mo, d).toordinal(): 1 for the first of January of year 1
toordinal(y, mo, d) ==
    LET p == y - 1
    IN  p * 365 + (p \div 4) - (p \div 100) + (p \div 400) + days_before_month(y, mo) + d

\* a datetime in UTC
Instant(y, mo, d, h, mi, sec) == [day |-> toordinal(y, mo, d), sec |-> (h * 60 + mi) * 60 + sec]

\* None where a datetime is expected
NoInstant == [day |-> 0, sec |-> 0]

\* a < b on datetimes
Before(a, b) == a.day < b.day \/ (a.day = b.day /\ a.sec < b.sec)

\* t - timedelta(days=n)
minus_days(t, n) == [day |-> t.day - n, sec |-> t.sec]

\* update_pubchem_trials_history.py line 102: datetime.fromisoformat of
\* YYYY-MM-DDTHH:MM:SS+00:00
now_dt(ts) ==
    LET u == ReplaceZ(ts)
    IN  Instant(StrToInt(SubSeq(u, 1, 4)), StrToInt(SubSeq(u, 6, 7)), StrToInt(SubSeq(u, 9, 10)),
                StrToInt(SubSeq(u, 12, 13)), StrToInt(SubSeq(u, 15, 16)), StrToInt(SubSeq(u, 18, 19)))

\* update_pubchem_trials_history.py line 118
snapshot_name(ts) == "trials_" \o safe_ts(ts) \o ".json"

\* the directives of strptime as its regular expression reads them:
\* %m is 1[0-2]|0[1-9]|[1-9]
is_month(s) ==
    \/ Len(s) = 2 /\ Ch(s, 1) = "1" /\ Ch(s, 2) \in {"0", "1", "2"}
    \/ Len(s) = 2 /\ Ch(s, 1) = "0" /\ IsDigit(Ch(s, 2)) /\ Ch(s, 2) # "0"
    \/ Len(s) = 1 /\ IsDigit(s) /\ s # "0"

\* %d is 3[0-1]|[1-2]\d|0[1-9]|[1-9]| [1-9]
is_day(s) ==
    \/ Len(s) = 2 /\ Ch(s, 1) = "3" /\ Ch(s, 2) \in {"0", "1"}
    \/ Len(s) = 2 /\ Ch(s, 1) \in {"1", "2"} /\ IsDigit(Ch(s, 2))
    \/ Len(s) = 2 /\ Ch(s, 1) \in {"0", " "} /\ IsDigit(Ch(s, 2)) /\ Ch(s, 2) # "0"
    \/ Len(s) = 1 /\ IsDigit(s) /\ s # "0"

\* %H is 2[0-3]|[0-1]\d|\d
is_hour(s) ==
    \/ Len(s) = 2 /\ Ch(s, 1) = "2" /\ Ch(s, 2) \in {"0", "1", "2", "3"}
    \/ Len(s) = 2 /\ Ch(s, 1) \in {"0", "1"} /\ IsDigit(Ch(s, 2))
    \/ Len(s) = 1 /\ IsDigit(s)

\* %M is [0-5]\d|\d
is_minute(s) ==
    \/ Len(s) = 2 /\ Ch(s, 1) \in {"0", "1", "2", "3", "4", "5"} /\ IsDigit(Ch(s, 2))
    \/ Len(s) = 1 /\ IsDigit(s)

\* %S is 6[0-1]|[0-5]\d|\d
is_second(s) ==
    \/ Len(s) = 2 /\ Ch(s, 1) = "6" /\ Ch(s, 2) \in {"0", "1"}
    \/ is_minute(s)

\* %m%d on the characters between the year and the T: the month takes two characters
\* when the rest is a day, one otherwise; << >> when there is no match
date_fields(rest) ==
    LET split(lm) == <<SubSeq(rest, 1, lm), SubSeq(rest, lm + 1, Len(rest))>>
        fits(lm) == Len(rest) > lm /\ is_month(split(lm)[1]) /\ is_day(split(lm)[2])
    IN  IF fits(2) THEN split(2) ELSE IF fits(1) THEN split(1) ELSE << >>

\* %H%M%S on the characters between the T and the Z: the hour takes two characters when
\* the rest matches, then the minute does
time_fields(t) ==
    LET split(lh, lm) == <<SubSeq(t, 1, lh), SubSeq(t, lh + 1, lh + lm), SubSeq(t, lh + lm + 1, Len(t))>>
        fits(lh, lm) == /\ Len(t) > lh + lm
                        /\ is_hour(split(lh, lm)[1]) /\ is_minute(split(lh, lm)[2])
                        /\ is_second(split(lh, lm)[3])
    IN  IF fits(2, 2) THEN split(2, 2) ELSE IF fits(2, 1) THEN split(2, 1)
        ELSE IF fits(1, 2) THEN split(1, 2) ELSE IF fits(1, 1) THEN split(1, 1) ELSE << >>

\* datetime.strptime(token, "%Y%m%dT%H%M%SZ"), NoInstant for ValueError: the letters
\* match in either case, the whole token must match, and the fields must make a date
\* and a time of day (year 0, the 30th of February and second 60 do not)
strptime(token) ==
    LET t_at == FirstOf(token, {"T", "t"})
        z_at == FirstOf(token, {"Z", "z"})
        df == date_fields(SubSeq(token, 5, t_at - 1))
        tf == time_fields(SubSeq(token, t_at + 1, z_at - 1))
        y == StrToInt(SubSeq(token, 1, 4))
        mo == StrToInt(df[1])
        d == StrToInt(Strip(df[2]))
    IN  IF /\ t_at >= 5 /\ t_at < z_at /\ z_at = Len(token)
           /\ AllDigits(SubSeq(token, 1, 4))
           /\ df # << >> /\ tf # << >>
           /\ y >= 1 /\ d <= days_in_month(y, mo) /\ StrToInt(tf[3]) <= 59
        THEN Instant(y, mo, d, StrToInt(tf[1]), StrToInt(tf[2]), StrToInt(tf[3]))
        ELSE NoInstant

\* update_pubchem_trials_history.py lines 45-53; NoInstant for None
parse_snapshot_timestamp(name) ==
    IF ~(LitAt(name, 1, "trials_") /\ LitAt(name, Len(name) - 4, ".json")) THEN NoInstant
    ELSE strptime(SubSeq(name, 8, Len(name) - 5))

\* history_dir.glob("trials_*.json") on the names of the directory's files
history_files(names) ==
    { p \in names : Len(p) >= 12 /\ LitAt(p, 1, "trials_") /\ LitAt(p, Len(p) - 4, ".json") }

old_snapshots_never(names, now_ts, retention_days) == {}

\* update_pubchem_trials_history.py lines 56-68: the files _prune_old_snapshots deletes
old_snapshots(names, now_ts, retention_days) ==
    IF retention_days < 0 THEN {}
    ELSE LET cutoff == minus_days(now_ts, retention_days)
         IN  { p \in history_files(names) :
                 LET snap_ts == parse_snapshot_timestamp(p)
                 IN  snap_ts # NoInstant /\ Before(snap_ts, cutoff) }

\* update_pubchem_trials_history.py lines 19-24: sha256 is taken as injective
checksum(content) == "sha256(" \o content \o ")"

(***************************************************************************)
(* json.loads on a text, as far as _json_row_count needs it: whether the   *)
(* text is a JSON document and, for a list, the number of its elements.    *)
(* A position is an index into the text; 0 says the text is no JSON there. *)
(***************************************************************************)
JsonWhitespace == {" ", "\t", "\n", "\r"}

DecimalDigits == {"0", "1", "2", "3", "4", "5", "6", "7", "8", "9"}

HexDigits == DecimalDigits \cup {"a", "b", "c", "d", "e", "f", "A", "B", "C", "D", "E", "F"}

\* the character at position i, "" past the end
At(s, i) == IF i >= 1 /\ i <= Len(s) THEN Ch(s, i) ELSE ""

RECURSIVE json_skip_whitespace(_, _)
json_skip_whitespace(s, i) == IF At(s, i) \in JsonWhitespace THEN json_skip_whitespace(s, i + 1) ELSE i

RECURSIVE json_digits_end(_, _)
json_digits_end(s, i) == IF At(s, i) \in DecimalDigits THEN json_digits_end(s, i + 1) ELSE i

\* the end of the number at i: -?(0|[1-9]\d*)(\.\d+)?([eE][-+]?\d+)?
json_number_end(s, i) ==
    LET j == IF At(s, i) = "-" THEN i + 1 ELSE i
        int_end == IF At(s, j) = "0" THEN j + 1
                   ELSE IF At(s, j) \in DecimalDigits THEN json_digits_end(s, j) ELSE 0
        frac_end == IF At(s, int_end) = "." /\ At(s, int_end + 1) \in DecimalDigits
                    THEN json_digits_end(s, int_end + 1) ELSE int_end
        nxt == IF At(s, frac_end + 1) \in {"+", "-"} THEN frac_end + 2 ELSE frac_end + 1
    IN  IF int_end = 0 THEN 0
        ELSE IF At(s, frac_end) \in {"e", "E"} /\ At(s, nxt) \in DecimalDigits THEN json_digits_end(s, nxt)
        ELSE frac_end

\* the end of the string whose opening quote is before j; control characters and
\* unknown escapes are errors
RECURSIVE json_string_end(_, _)
json_string_end(s, j) ==
    IF j > Len(s) THEN 0
    ELSE IF Ch(s, j) = "\"" THEN j + 1
    ELSE IF Ch(s, j) = "\\"
    THEN (IF At(s, j + 1) \in {"\"", "\\", "/", "b", "f", "n", "r", "t"} THEN json_string_end(s, j + 2)
          ELSE IF At(s, j + 1) = "u" /\ \A nxt \in (j + 2)..(j + 5) : At(s, nxt) \in HexDigits
          THEN json_string_end(s, j + 6)
          ELSE 0)
    ELSE IF Ch(s, j) \in {"\t", "\n", "\r", "\f"} THEN 0
    ELSE json_string_end(s, j + 1)

RECURSIVE json_value_end(_, _), json_array(_, _), json_array_items(_, _, _), json_object_items(_, _)
\* the end of the value that starts at i
json_value_end(s, i) ==
    IF At(s, i) = "\"" THEN json_string_end(s, i + 1)
    ELSE IF At(s, i) = "{"
    THEN (LET j == json_skip_whitespace(s, i + 1)
          IN  IF At(s, j) = "}" THEN j + 1 ELSE json_object_items(s, j))
    ELSE IF At(s, i) = "[" THEN json_array(s, i).end
    ELSE IF LitAt(s, i, "null") \/ LitAt(s, i, "true") THEN i + 4
    ELSE IF LitAt(s, i, "false") THEN i + 5
    ELSE IF LitAt(s, i, "NaN") THEN i + 3
    ELSE IF LitAt(s, i, "Infinity") THEN i + 8
    ELSE IF LitAt(s, i, "-Infinity") THEN i + 9
    ELSE json_number_end(s, i)

\* the list that starts at i: its end and the number of its elements
json_array(s, i) ==
    LET j == json_skip_whitespace(s, i + 1)
    IN  IF At(s, j) = "]" THEN [end |-> j + 1, n |-> 0] ELSE json_array_items(s, j, 1)

\* the n-th element of a list at j, and what follows it
json_array_items(s, j, n) ==
    LET e == json_value_end(s, j)
        nxt == json_skip_whitespace(s, e)
    IN  IF e = 0 THEN [end |-> 0, n |-> 0]
        ELSE IF At(s, nxt) = "]" THEN [end |-> nxt + 1, n |-> n]
        ELSE IF At(s, nxt) = "," THEN json_array_items(s, json_skip_whitespace(s, nxt + 1), n + 1)
        ELSE [end |-> 0, n |-> 0]

\* a key at j, a colon, a value, and what follows them
json_object_items(s, j) ==
    LET key_end == json_string_end(s, j + 1)
        colon == json_skip_whitespace(s, key_end)
        e == json_value_end(s, json_skip_whitespace(s, colon + 1))
        nxt == json_skip_whitespace(s, e)
    IN  IF At(s, j) # "\"" \/ key_end = 0 \/ At(s, colon) # ":" \/ e = 0 THEN 0
        ELSE IF At(s, nxt) = "}" THEN nxt + 1
        ELSE IF At(s, nxt) = "," THEN json_object_items(s, json_skip_whitespace(s, nxt + 1))
        ELSE 0

\* update_pubchem_trials_history.py line 28, json.loads(text): white space, one value,
\* white space; raises for JSONDecodeError
json_loads(text) ==
    LET i == json_skip_whitespace(text, 1)
        is_list == At(text, i) = "["
        e == json_value_end(text, i)
    IN  IF e # 0 /\ json_skip_whitespace(text, e) = Len(text) + 1
        THEN [raises |-> FALSE, is_list |-> is_list, len |-> IF is_list THEN json_array(text, i).n ELSE 0]
        ELSE [raises |-> TRUE, is_list |-> FALSE, len |-> 0]

\* update_pubchem_trials_history.py lines 29-31: len(obj) for a list, 1 otherwise
row_count(obj) == IF obj.is_list THEN obj.len ELSE 1

\* update_pubchem_trials_history.py lines 27-31, for a text json.loads takes
json_row_count(content) == row_count(json_loads(content))

\* the contents of --trials-file: a list of one row whose title holds braces, a comma
\* and a quote; a list of two rows
TrialsFiles ==
    { "[{\"id\":\"NCT1\",\"title\":\"Dose {mg}, \\\"a\\\"\"}]",
      "[{\"id\":\"NCT1\"}, {\"id\":\"NCT2\"}]" }

\* a trials file that is no JSON
NotJsonFile == "[{\"id\":\"NCT1\"},]"

\* json.loads on the trials files, read once for all runs
trials_documents == [f \in TrialsFiles \cup {NotJsonFile} |-> json_loads(f)]

\* --timestamp
Timestamps ==
    { "2026-01-01T00:00:00Z", "2026-01-02T00:00:00Z", "2026-01-02T00:00:00+00:00" }

\* --retention-days
RetentionDays == { -1, 0, 1 }

\* --retention-days and --snapshot-on-change of the runs without --changed-flag-path
SettingsWithoutFlagPath == { <<0, TRUE>> }

\* changed_flag_path: --changed-flag-path is given (its default is None).  The option
\* decides the last write of a run only; runs with it take every setting, runs without
\* it every file and timestamp with the setting above
HistoryArgs ==
    [trials : TrialsFiles, timestamp : Timestamps, retention_days : RetentionDays,
     snapshot_on_change : BOOLEAN, changed_flag_path : {TRUE}]
    \cup { [trials |-> f, timestamp |-> ts, retention_days |-> rs[1], snapshot_on_change |-> rs[2],
            changed_flag_path |-> FALSE] : f \in TrialsFiles, ts \in Timestamps, rs \in SettingsWithoutFlagPath }
    \cup { [trials |-> NotJsonFile, timestamp |-> "2026-01-02T00:00:00Z", retention_days |-> 0,
            snapshot_on_change |-> FALSE, changed_flag_path |-> TRUE] }

NoArgs == [trials |-> "", timestamp |-> "", retention_days |-> 0, snapshot_on_change |-> FALSE,
           changed_flag_path |-> FALSE]

NoState == [exists |-> FALSE, last_collected_at |-> "", last_changed_at |-> "", latest_checksum |-> "",
            latest_row_count |-> 0, history_count |-> 0, last_pruned_count |-> 0, latest_snapshot |-> ""]

NoRun == [n |-> 0, first |-> FALSE, same_file |-> FALSE, changed |-> FALSE, snapshot_on_change |-> FALSE,
          timestamp |-> "", retention_days |-> 0, before |-> {}, after |-> {}, history_count_before |-> 0]

\* the snapshot directories a first run can meet: empty, or holding a file that is no
\* snapshot, an older snapshot whose name strptime reads (in lower case) and a snapshot
\* whose name it does not read (a day that does not exist)
HistoryDirs ==
    { {},
      {"notes.txt", "trials_20251231t120000z.json", "trials_20251232T000000Z.json"} }

HistoryIdle(names) ==
    /\ hist_pc = "idle"
    /\ hist_args = NoArgs
    /\ latest_file = ""
    /\ state_file = NoState
    /\ history_dir = names
    /\ changed_flag = ""
    /\ changed = FALSE
    /\ snapshot_path = ""
    /\ deleted_snapshots = 0
    /\ last_run = NoRun

is_changed_always(latest, prev, new_checksum) == TRUE

\* update_pubchem_trials_history.py line 109; "" stands for a missing latest file
is_changed(latest, prev, new_checksum) == latest = "" \/ new_checksum # prev.latest_checksum

\* update_pubchem_trials_history.py line 114
should_snapshot(args, is_new) == IF args.snapshot_on_change THEN is_new ELSE TRUE

\* update_pubchem_trials_history.py lines 92-119: checksum, changed, latest copy, snapshot
HistoryStart(args) ==
    /\ hist_pc \in {"idle", "raised"}
    /\ HistoryStep
    /\ ~trials_documents[args.trials].raises
    /\ hist_args' = args
    /\ changed' = is_changed(latest_file, state_file, checksum(args.trials))
    /\ latest_file' = args.trials
    /\ IF should_snapshot(args, changed')
       THEN /\ snapshot_path' = snapshot_name(args.timestamp)
            /\ history_dir' = history_dir \cup { snapshot_name(args.timestamp) }
       ELSE /\ snapshot_path' = ""
            /\ UNCHANGED history_dir
    /\ last_run' = [n |-> last_run.n, first |-> ~state_file.exists,
                    same_file |-> (latest_file = args.trials /\ state_file.latest_checksum = checksum(args.trials)),
                    changed |-> changed', snapshot_on_change |-> args.snapshot_on_change,
                    timestamp |-> args.timestamp, retention_days |-> args.retention_days,
                    before |-> history_dir, after |-> {}, history_count_before |-> state_file.history_count]
    /\ hist_pc' = "prune"
    /\ UNCHANGED <<state_file, changed_flag, deleted_snapshots>>

\* update_pubchem_trials_history.py lines 93-94: FileNotFoundError
HistoryFileMissing ==
    /\ hist_pc = "idle"
    /\ HistoryStep
    /\ hist_pc' = "raised"
    /\ UNCHANGED <<hist_args, latest_file, state_file, history_dir, changed_flag, changed,
                   snapshot_path, deleted_snapshots, last_run>>

\* update_pubchem_trials_history.py line 105: the trials file is no JSON, json.loads
\* raises before anything is written
HistoryJsonRaises(args) ==
    /\ hist_pc \in {"idle", "raised"}
    /\ HistoryStep
    /\ trials_documents[args.trials].raises
    /\ hist_pc' = "raised"
    /\ UNCHANGED <<hist_args, latest_file, state_file, history_dir, changed_flag, changed,
                   snapshot_path, deleted_snapshots, last_run>>

\* update_pubchem_trials_history.py line 121
HistoryPrune ==
    /\ hist_pc = "prune"
    /\ HistoryStep
    /\ LET old == old_snapshots(history_dir, now_dt(hist_args.timestamp), hist_args.retention_days)
       IN  /\ history_dir' = history_dir \ old
           /\ deleted_snapshots' = Cardinality(old)
    /\ hist_pc' = "state"
    /\ UNCHANGED <<hist_args, latest_file, state_file, changed_flag, changed, snapshot_path, last_run>>

\* update_pubchem_trials_history.py lines 123-151
HistoryWriteState ==
    /\ hist_pc = "state"
    /\ HistoryStep
    /\ state_file' =
           [exists |-> TRUE,
            last_collected_at |-> hist_args.timestamp,
            last_changed_at |-> (IF changed \/ ~state_file.exists THEN hist_args.timestamp
                                 ELSE state_file.last_changed_at),
            latest_checksum |-> checksum(hist_args.trials),
            latest_row_count |-> row_count(trials_documents[hist_args.trials]),
            history_count |-> Cardinality(history_files(history_dir)),
            last_pruned_count |-> deleted_snapshots,
            latest_snapshot |-> (IF snapshot_path # "" THEN snapshot_path ELSE state_file.latest_snapshot)]
    /\ changed_flag' = IF hist_args.changed_flag_path
                       THEN (IF changed THEN "true\n" ELSE "false\n")
                       ELSE changed_flag
    /\ last_run' = [last_run EXCEPT !.n = IF @ < 2 THEN @ + 1 ELSE @, !.after = history_dir]
    /\ hist_pc' = "idle"
    /\ UNCHANGED <<hist_args, latest_file, history_dir, changed, snapshot_path, deleted_snapshots>>

(***************************************************************************)
(* pubchem/web_fallback/common.py: the canonical projection of an SDQ row, *)
(* its union variant and the schema unifier; the union header and the row  *)
(* projection of the CSV writers.  A row is a dict: a sequence of          *)
(* key/value pairs in insertion order.                                     *)
(***************************************************************************)
SDQ_COLLECTION_CLINICALTRIALS == "clinicaltrials"

SDQ_COLLECTION_EU_REGISTER == "clinicaltrials_eu"

SDQ_COLLECTION_JAPAN_NIPH == "clinicaltrials_jp"

\* SDQ_COLLECTION_LABELS.get(collection, collection)
collection_label(collection) ==
    IF collection = SDQ_COLLECTION_CLINICALTRIALS THEN "ClinicalTrials.gov"
    ELSE IF collection = SDQ_COLLECTION_EU_REGISTER THEN "EU Clinical Trials Register"
    ELSE IF collection = SDQ_COLLECTION_JAPAN_NIPH THEN "NIPH Clinical Trials Search of Japan"
    ELSE collection

\* bool(v) for None, str and int
truthy(v) == ~(v.t = "null" \/ (v.t = "str" /\ v.s = "") \/ (v.t = "int" /\ v.n = 0))

\* a or b
py_or(a, b) == IF truthy(a) THEN a ELSE b

trial_id_ctid_first(row, collection) == py_or(row_get(row, "ctid"), row_get(row, "eudractnumber"))

\* common.py lines 66-69
trial_id(row, collection) ==
    IF collection = SDQ_COLLECTION_EU_REGISTER
    THEN py_or(row_get(row, "eudractnumber"), row_get(row, "ctid"))
    ELSE py_or(row_get(row, "ctid"), row_get(row, "eudractnumber"))

\* common.py lines 71-73
date_val(row) ==
    IF row_get(row, "date") = JNull THEN row_get(row, "updatedate") ELSE row_get(row, "date")

\* common.py line 75
link_val(row) == py_or(row_get(row, "id_url"), row_get(row, "link"))

\* common.py lines 65-87
normalize_sdq_trial_row(row, collection) ==
    << Pair("collection", JStr(collection_label(collection))),
       Pair("collection_code", JStr(collection)),
       Pair("id", trial_id(row, collection)),
       Pair("title", row_get(row, "title")),
       Pair("phase", row_get(row, "phase")),
       Pair("status", row_get(row, "status")),
       Pair("date", date_val(row)),
       Pair("id_url", link_val(row)),
       Pair("cids", row_get(row, "cids")) >>

kept_raw_pairs_none(row, out) == <<>>

\* common.py lines 92-94: the pairs of row whose key is not in out
kept_raw_pairs(row, out) ==
    LET absent(p) == p.key \notin row_keys(out)
    IN  SelectSeq(row, absent)

\* common.py lines 90-95
normalize_sdq_trial_row_union(row, collection) ==
    LET out == normalize_sdq_trial_row(row, collection)
    IN  out \o kept_raw_pairs(row, out)

\* common.py lines 101-103, merge_pubchem_trials_shards.py lines 54-56
union_keys(rows) == UNION { row_keys(rows[i]) : i \in 1..Len(rows) }

\* the keys of rows in the order the rows first show them
RECURSIVE first_seen_keys(_)
first_seen_keys(rows) ==
    IF rows = <<>> THEN <<>>
    ELSE LET before == first_seen_keys(SubSeq(rows, 1, Len(rows) - 1))
             new(p) == p.key \notin SeqToSet(before)
             fresh == SelectSeq(rows[Len(rows)], new)
         IN  before \o [i \in 1..Len(fresh) |-> fresh[i].key]

ordered_union_keys_last_seen_first(rows) == Reverse(first_seen_keys(rows))

\* common.py line 104
ordered_union_keys(rows) == Sorted(union_keys(rows))

project_present_only(row, keys) ==
    LET present(key) == key \in row_keys(row)
        ks == SelectSeq(keys, present)
    IN  [i \in 1..Len(ks) |-> Pair(ks[i], row_get(row, ks[i]))]

\* {k: row.get(k) for k in keys}: common.py line 107, merge_pubchem_trials_shards.py line 78
project(row, keys) == [i \in 1..Len(keys) |-> Pair(keys[i], row_get(row, keys[i]))]

\* common.py lines 98-108
align_rows_to_union_schema(rows) ==
    IF rows = <<>> THEN [rows |-> <<>>, keys |-> <<>>]
    ELSE LET keys == ordered_union_keys(rows)
         IN  [rows |-> [i \in 1..Len(rows) |-> project(rows[i], keys)], keys |-> keys]

\* merge_pubchem_trials_shards.py lines 53-59 (export_pubchem_trials_dataset.py lines 55-61)
build_union_header(rows, base) ==
    LET keys == union_keys(rows)
        occurs(key) == key \in keys
        ordered_base == SelectSeq(base, occurs)
    IN  ordered_base \o Sorted(keys \ SeqToSet(ordered_base))

\* rows as the SDQ endpoint returns them
SdqCtgov ==
    << Pair("ctid", JStr("NCT01561508")), Pair("title", JStr("Trial")),
       Pair("phase", JStr("Phase 2")), Pair("updatedate", JStr("2012-12-24")),
       Pair("link", JStr("https://clinicaltrials.gov/study/NCT01561508")) >>

SdqEu ==
    << Pair("eudractnumber", JStr("2006-006023-39")), Pair("status", JStr("Completed")),
       Pair("date", JStr("2007-09-24")), Pair("link", JStr("https://eu/2006-006023-39")) >>

\* both identifiers, both dates, both links, and a field of the registry
SdqBoth ==
    << Pair("zone", JStr("EU")), Pair("ctid", JStr("NCT00000001")),
       Pair("eudractnumber", JStr("2010-000001-10")), Pair("date", JStr("2020-01-01")),
       Pair("updatedate", JStr("2021-01-01")), Pair("id_url", JStr("https://a")),
       Pair("link", JStr("https://b")), Pair("cids", JInt(2244)) >>

\* empty and null values
SdqBlank ==
    << Pair("ctid", JStr("")), Pair("eudractnumber", JStr("2011-000002-11")),
       Pair("date", JNull), Pair("updatedate", JStr("2022-02-02")),
       Pair("id_url", JStr("")), Pair("link", JStr("https://c")) >>

\* a raw row that has canonical keys of its own, and an empty date
SdqOwnId ==
    << Pair("id", JStr("RAW")), Pair("collection", JStr("raw")), Pair("ctid", JStr("NCT00000002")),
       Pair("date", JStr("")), Pair("updatedate", JStr("2023-03-03")) >>

SdqEmpty == <<>>

SdqRow(row, collection) == [row |-> row, collection |-> collection]

SdqRowsOfCollections ==
    { SdqRow(SdqCtgov, SDQ_COLLECTION_CLINICALTRIALS),
      SdqRow(SdqEu, SDQ_COLLECTION_EU_REGISTER),
      SdqRow(SdqBoth, SDQ_COLLECTION_EU_REGISTER),
      SdqRow(SdqBoth, SDQ_COLLECTION_JAPAN_NIPH),
      SdqRow(SdqBlank, SDQ_COLLECTION_CLINICALTRIALS),
      SdqRow(SdqBlank, SDQ_COLLECTION_EU_REGISTER),
      SdqRow(SdqOwnId, "clinicaltrials_kr"),
      SdqRow(SdqEmpty, SDQ_COLLECTION_JAPAN_NIPH) }

MaxSdqRows == 3

SdqInputs == UNION { [1..n -> SdqRowsOfCollections] : n \in 0..MaxSdqRows }

\* merge_pubchem_trials_shards.py lines 106-120 (export_pubchem_trials_dataset.py lines
\* 311-325 hold the same list)
preferred_header ==
    <<"cid", "collection", "id", "id_url", "title", "phase", "status", "date", "smiles", "inchikey",
      "iupac_name", "image_base64", "compound_error">>

\* the base_first argument of _build_union_header: the list of the two scripts, and
\* lists of other callers: none, a prefix of it, keys in another order
PreferredHeaders ==
    { preferred_header, <<>>, <<"cid", "collection", "id", "id_url", "title">>, <<"title", "id", "zone">> }

SchemaIdle ==
    /\ schema_pc = "idle"
    /\ sdq_rows = <<>>
    /\ canonical_rows = <<>>
    /\ union_rows = <<>>
    /\ aligned = <<>>
    /\ ordered_keys = <<>>
    /\ realigned = [rows |-> <<>>, keys |-> <<>>]
    /\ base_first = <<>>
    /\ header = <<>>
    /\ csv_rows = <<>>

\* the SDQ payloads answer with these rows
SdqAnswer(input) ==
    /\ schema_pc = "idle"
    /\ SchemaStep
    /\ schema_pc' = "input"
    /\ sdq_rows' = input
    /\ UNCHANGED <<canonical_rows, union_rows, aligned, ordered_keys, realigned, base_first,
                   header, csv_rows>>

\* web_fallback/__init__.py line 59: get_normalized_trials
GetNormalizedTrials ==
    /\ schema_pc = "input"
    /\ SchemaStep
    /\ canonical_rows' =
         [i \in 1..Len(sdq_rows) |-> normalize_sdq_trial_row(sdq_rows[i].row, sdq_rows[i].collection)]
    /\ schema_pc' = "canonical"
    /\ UNCHANGED <<sdq_rows, union_rows, aligned, ordered_keys, realigned, base_first, header,
                   csv_rows>>

\* web_fallback/__init__.py lines 61-77: get_normalized_trials_union
GetNormalizedTrialsUnion ==
    /\ schema_pc = "canonical"
    /\ SchemaStep
    /\ LET merged == [i \in 1..Len(sdq_rows) |->
                         normalize_sdq_trial_row_union(sdq_rows[i].row, sdq_rows[i].collection)]
           answer == align_rows_to_union_schema(merged)
       IN  /\ union_rows' = merged
           /\ aligned' = answer.rows
           /\ ordered_keys' = answer.keys
    /\ schema_pc' = "aligned"
    /\ UNCHANGED <<sdq_rows, canonical_rows, realigned, base_first, header, csv_rows>>

\* align_rows_to_union_schema called on the rows it returned
AlignAgain ==
    /\ schema_pc = "aligned"
    /\ SchemaStep
    /\ realigned' = align_rows_to_union_schema(aligned)
    /\ schema_pc' = "realigned"
    /\ UNCHANGED <<sdq_rows, canonical_rows, union_rows, aligned, ordered_keys, base_first,
                   header, csv_rows>>

\* merge_pubchem_trials_shards.py lines 53-59 and 73-78: _build_union_header(rows, base)
\* and the header and rows _write_csv writes with it; line 121 passes preferred_header
WriteCsv(base) ==
    /\ schema_pc = "realigned"
    /\ SchemaStep
    /\ base_first' = base
    /\ header' = build_union_header(union_rows, base)
    /\ csv_rows' = [i \in 1..Len(union_rows) |->
                       project(union_rows[i], build_union_header(union_rows, base))]
    /\ schema_pc' = "csv"
    /\ UNCHANGED <<sdq_rows, canonical_rows, union_rows, aligned, ordered_keys, realigned>>

(***************************************************************************)
(* The request wrappers under tenacity's retry(reraise=True,               *)
(* stop=stop_after_attempt(5), retry=retry_if_exception_type(...)).        *)
(* What Response.json() raises on a body that is not JSON depends on the   *)
(* installed requests and simplejson: the class may or may not be a        *)
(* requests.RequestException and may or may not be a json.JSONDecodeError. *)
(***************************************************************************)
\* stop_after_attempt(5): ctgov/client.py line 152, pubchem/client.py line 30,
\* pubchem/pug_view.py line 111
StopAfterAttempt == 5

HttpClients == {"ctgov", "pubchem", "pug_view"}

\* what the server does on one attempt.  kind: "raises" when s.get raises (raised is
\* the class), "json" or "malformed" for the body of a response; request_exception and
\* json_decode_error are the bases of the class r.json() raises on a malformed body
NoResponse == [kind |-> "none", status |-> 0, retry_after |-> "", raised |-> "",
               request_exception |-> FALSE, json_decode_error |-> FALSE]

\* s.get raises an exception of requests: every one of them is a RequestException
SessionGetRaises(class) ==
    [kind |-> "raises", status |-> 0, retry_after |-> "", raised |-> class,
     request_exception |-> TRUE, json_decode_error |-> FALSE]

\* no connection
ConnectionFailure == SessionGetRaises("ConnectionError")

\* the server does not answer within timeout
ReadTimeoutFailure == SessionGetRaises("ReadTimeout")

JsonBody == [kind |-> "json", status |-> 200, retry_after |-> "", raised |-> "",
             request_exception |-> FALSE, json_decode_error |-> FALSE]

\* a 200 whose body is not JSON, with the bases of the class r.json() raises
MalformedBody(request_exception, json_decode_error) ==
    [kind |-> "malformed", status |-> 200, retry_after |-> "", raised |-> "",
     request_exception |-> request_exception, json_decode_error |-> json_decode_error]

\* a response with another status code and a Retry-After header ("" for none)
StatusResponse(status, retry_after, body) == [body EXCEPT !.status = status, !.retry_after = retry_after]

\* Retry-After headers: seconds in the forms float() reads, a word, an HTTP date,
\* values time.sleep refuses
RetryAfterValues ==
    {"2", "soon", "Wed, 21 Oct 2026 07:28:00 GMT", "2.5", " +1_0e-1 ", "-1", "nan", "inf", "9223372036"}

\* status codes: success, a redirect left unfollowed, client and server errors, the
\* rate-limit statuses, and codes at the two ends of the range raise_for_status raises for
StatusCodes == {204, 304, 399, 400, 404, 408, 429, 500, 503, 504, 599, 600}

HttpResponses ==
    {ConnectionFailure, ReadTimeoutFailure, JsonBody}
        \cup { StatusResponse(st, "", body) : st \in StatusCodes, body \in {JsonBody, MalformedBody(TRUE, TRUE)} }
        \cup { StatusResponse(429, ra, JsonBody) : ra \in RetryAfterValues }
        \cup { MalformedBody(re, jd) : re \in BOOLEAN, jd \in BOOLEAN }

\* ctgov/client.py line 168
is_rate_limit_status(status) == status \in {408, 429, 503, 504}

\* a digitpart of Python's float grammar: digits, single underscores between digits
is_digitpart(s) ==
    /\ s # ""
    /\ IsDigit(Ch(s, 1))
    /\ IsDigit(Ch(s, Len(s)))
    /\ \A i \in 1..Len(s) : IsDigit(Ch(s, i)) \/ Ch(s, i) = "_"
    /\ \A i \in 1..(Len(s) - 1) : ~(Ch(s, i) = "_" /\ Ch(s, i + 1) = "_")

RECURSIVE StripLeadingZeros(_)
StripLeadingZeros(s) == IF s # "" /\ Ch(s, 1) = "0" THEN StripLeadingZeros(SubSeq(s, 2, Len(s))) ELSE s

RECURSIVE StripTrailingZeros(_)
StripTrailingZeros(s) ==
    IF s # "" /\ Ch(s, Len(s)) = "0" THEN StripTrailingZeros(SubSeq(s, 1, Len(s) - 1)) ELSE s

\* int() of the digits of an exponent; from 9999 on every value is 0.0 or inf
exponent_of(digits) ==
    LET d == StripLeadingZeros(digits)
    IN  IF d = "" THEN 0 ELSE IF Len(d) > 4 THEN 9999 ELSE StrToInt(d)

\* a float: kind "finite", "inf" or "nan"; a finite value is digits * 10^exp with digits
\* not starting or ending with 0 ("" for zero)
Float(kind, neg, digits, exp) == [kind |-> kind, neg |-> neg, digits |-> digits, exp |-> exp]

NotAFloat == Float("error", FALSE, "", 0)

\* the decimal value rounded as a double is: inf from 1.79769313486231581e308 up, 0.0 below
\* 2.4703282292062328e-324 (values of at most 15 significant digits)
rounded(neg, digits, exp) ==
    LET d == StripTrailingZeros(StripLeadingZeros(digits))
        e == exp + (Len(StripLeadingZeros(digits)) - Len(d))
        n == Len(d) + e
    IN  IF d = "" THEN Float("finite", neg, "", 0)
        ELSE IF n > 309 \/ (n = 309 /\ ~StrLess(d, "179769313486231581")) THEN Float("inf", neg, "", 0)
        ELSE IF n < -323 \/ (n = -323 /\ StrLess(d, "24703282292062328")) THEN Float("finite", neg, "", 0)
        ELSE Float("finite", neg, d, e)

\* float(text) of a str: white space is stripped, then [sign] (inf | infinity | nan |
\* digitpart [. [digitpart]] [exponent] | . digitpart [exponent]); NotAFloat for ValueError
float_of(text) ==
    LET t == Strip(text)
        signed == t # "" /\ Ch(t, 1) \in {"+", "-"}
        neg == t # "" /\ Ch(t, 1) = "-"
        body == IF signed THEN SubSeq(t, 2, Len(t)) ELSE t
        e_at == FirstOf(body, {"e", "E"})
        has_exp == e_at <= Len(body)
        mantissa == SubSeq(body, 1, e_at - 1)
        exp_part == SubSeq(body, e_at + 1, Len(body))
        exp_signed == exp_part # "" /\ Ch(exp_part, 1) \in {"+", "-"}
        exp_digits == IF exp_signed THEN SubSeq(exp_part, 2, Len(exp_part)) ELSE exp_part
        dot_at == FirstOf(mantissa, {"."})
        int_part == SubSeq(mantissa, 1, dot_at - 1)
        frac_part == SubSeq(mantissa, dot_at + 1, Len(mantissa))
        exp_value == IF ~has_exp THEN 0
                     ELSE IF Ch(exp_part, 1) = "-" THEN 0 - exponent_of(RemoveChar(exp_digits, "_"))
                     ELSE exponent_of(RemoveChar(exp_digits, "_"))
    IN  IF Lower(body) \in {"inf", "infinity"} THEN Float("inf", neg, "", 0)
        ELSE IF Lower(body) = "nan" THEN Float("nan", FALSE, "", 0)
        ELSE IF /\ int_part = "" \/ is_digitpart(int_part)
                /\ frac_part = "" \/ is_digitpart(frac_part)
                /\ int_part # "" \/ frac_part # ""
                /\ has_exp => is_digitpart(exp_digits)
        THEN rounded(neg, RemoveChar(int_part, "_") \o RemoveChar(frac_part, "_"),
                     exp_value - Len(RemoveChar(frac_part, "_")))
        ELSE NotAFloat

\* float(retry_after) succeeds
is_float(text) == float_of(text) # NotAFloat

\* a duration of 2**63 nanoseconds or more in either direction
\* (values of at most 15 significant digits)
too_large_for_sleep(x) ==
    \/ x.kind = "inf"
    \/ /\ x.kind = "finite"
       /\ x.digits # ""
       /\ \/ Len(x.digits) + x.exp > 10
          \/ Len(x.digits) + x.exp = 10 /\ ~StrLess(x.digits, "9223372036854775808")

\* the deadline of the sleep, the reading of the monotonic clock plus the duration, can
\* pass 2**63 nanoseconds: durations from 9e9 seconds, for a clock below seven years
near_clock_limit(x) ==
    /\ x.kind = "finite"
    /\ ~x.neg
    /\ Len(x.digits) + x.exp = 10
    /\ Ch(x.digits, 1) = "9"
    /\ ~too_large_for_sleep(x)

\* time.sleep(x): what it raises ("" when it sleeps).  NaN and negative durations are
\* ValueErrors; a duration out of range is an OverflowError; near the range's end the
\* system call fails or not, with the clock's reading
sleep_raises(x) ==
    IF x.kind = "nan" THEN {"ValueError"}
    ELSE IF too_large_for_sleep(x) THEN {"OverflowError"}
    ELSE IF x.neg /\ x.digits # "" THEN {"ValueError"}
    ELSE IF near_clock_limit(x) THEN {"", "OSError"}
    ELSE {""}

\* an outcome of the wrapped function: it returns, or raises an exception of a class
\* that is or is not a requests.RequestException
Outcome(raised, request_exception, slept) ==
    [raised |-> raised, request_exception |-> request_exception, slept |-> slept]

\* ctgov/client.py lines 168-175: the answer to a rate-limit status
rate_limited(retry_after) ==
    IF retry_after = "" \/ ~is_float(retry_after)
    THEN {Outcome("CTGovRateLimitError", FALSE, <<>>)}
    ELSE { IF raised = "" THEN Outcome("CTGovRateLimitError", FALSE, <<float_of(retry_after)>>)
           ELSE IF raised = "ValueError" THEN Outcome("CTGovRateLimitError", FALSE, <<>>)
           ELSE Outcome(raised, FALSE, <<>>) : raised \in sleep_raises(float_of(retry_after)) }

\* Response.raise_for_status raises HTTPError
raise_for_status(status) == 400 <= status /\ status < 600

\* ctgov/client.py lines 156-182: the outcomes of one attempt
ctgov_get(resp) ==
    IF resp.kind = "raises" THEN {Outcome(resp.raised, resp.request_exception, <<>>)}
    ELSE IF is_rate_limit_status(resp.status) THEN rate_limited(resp.retry_after)
    ELSE IF raise_for_status(resp.status) THEN {Outcome("CTGovError", FALSE, <<>>)}
    ELSE IF resp.kind = "malformed"
    THEN (IF resp.json_decode_error THEN {Outcome("CTGovError", FALSE, <<>>)}
          ELSE {Outcome("JSONDecodeError", resp.request_exception, <<>>)})
    ELSE {Outcome("", FALSE, <<>>)}

\* pubchem/client.py lines 34-41 and pubchem/pug_view.py lines 115-123
pubchem_get(resp, error_class) ==
    IF resp.kind = "raises" THEN {Outcome(resp.raised, resp.request_exception, <<>>)}
    ELSE IF raise_for_status(resp.status) THEN {Outcome(error_class, FALSE, <<>>)}
    ELSE IF resp.kind = "malformed" THEN {Outcome("JSONDecodeError", resp.request_exception, <<>>)}
    ELSE {Outcome("", FALSE, <<>>)}

wrapped_call(client, resp) ==
    IF client = "ctgov" THEN ctgov_get(resp)
    ELSE IF client = "pubchem" THEN pubchem_get(resp, "PubChemError")
    ELSE pubchem_get(resp, "PubChemPugViewError")

\* retry_if_exception_type: ctgov/client.py line 154, pubchem/client.py line 32,
\* pubchem/pug_view.py line 113
retry_if_exception_type(client, outcome) ==
    \/ outcome.request_exception
    \/ client = "ctgov" /\ outcome.raised = "CTGovRateLimitError"

HttpIdle ==
    /\ http_pc = "idle"
    /\ http_client = ""
    /\ attempt_number = 0
    /\ http_response = NoResponse
    /\ http_raised = ""
    /\ http_slept = <<>>

\* a caller enters the wrapper
HttpCall(client) ==
    /\ http_pc \in {"idle", "returned", "raised"}
    /\ HttpStep
    /\ http_pc' = "calling"
    /\ http_client' = client
    /\ attempt_number' = 0
    /\ http_response' = NoResponse
    /\ http_raised' = ""
    /\ http_slept' = <<>>

\* an attempt returns the decoded body
HttpReturn(resp) ==
    /\ http_pc = "calling"
    /\ HttpStep
    /\ \E outcome \in wrapped_call(http_client, resp) : outcome.raised = ""
    /\ attempt_number' = attempt_number + 1
    /\ http_response' = resp
    /\ http_pc' = "returned"
    /\ UNCHANGED <<http_client, http_raised, http_slept>>

\* an attempt raises an exception of a retried class before the last attempt
HttpRetry(resp) ==
    /\ http_pc = "calling"
    /\ HttpStep
    /\ \E outcome \in wrapped_call(http_client, resp) :
          /\ outcome.raised # ""
          /\ retry_if_exception_type(http_client, outcome)
          /\ attempt_number + 1 < StopAfterAttempt
          /\ attempt_number' = attempt_number + 1
          /\ http_response' = resp
          /\ http_slept' = http_slept \o outcome.slept
    /\ UNCHANGED <<http_pc, http_client, http_raised>>

\* an attempt raises an exception that is not retried, or the last attempt raises
HttpRaise(resp) ==
    /\ http_pc = "calling"
    /\ HttpStep
    /\ \E outcome \in wrapped_call(http_client, resp) :
          /\ outcome.raised # ""
          /\ \/ ~retry_if_exception_type(http_client, outcome)
             \/ attempt_number + 1 >= StopAfterAttempt
          /\ attempt_number' = attempt_number + 1
          /\ http_response' = resp
          /\ http_slept' = http_slept \o outcome.slept
          /\ http_raised' = outcome.raised
    /\ http_pc' = "raised"
    /\ UNCHANGED http_client

(***************************************************************************)
(* Specifications: one per entry point; the other entry points stay idle.  *)
(***************************************************************************)
vars == <<resolverVars, exportVars, collectVars, linkerVars, datasetVars, mergeVars, historyVars, schemaVars, httpVars>>

Init == InitResolver /\ InitExport /\ CollectIdle(NoUpstream) /\ LinkerIdle(NoCtgov) /\ DatasetIdle /\ MergeIdle /\ HistoryIdle({}) /\ SchemaIdle /\ HttpIdle

SpecResolver == Init /\ [][NextResolver]_vars

NextExport ==
    \/ \E cfg \in ExportConfigs, input \in ExportInputs : ExportStart(cfg, input)
    \/ ExportRecord
    \/ ExportRaises
    \/ ExportWrite

SpecExport == Init /\ [][NextExport]_vars

NextCollect ==
    \/ \E cfg \in CollectConfigs : StartRun(cfg)
    \/ WriteCidsTxt
    \/ WriteCidsJsonl
    \/ WriteMapHeader
    \/ SkipProcessed
    \/ ResolveCid
    \/ WriteCompound
    \/ WriteMapCsv
    \/ StudyLimitBreak
    \/ StudyFetch
    \/ StudyCached
    \/ CidDone
    \/ FinishRun
    \/ Interrupt

InitPipeline == InitResolver /\ InitExport /\ InitCollect /\ LinkerIdle(NoCtgov) /\ DatasetIdle /\ MergeIdle /\ HistoryIdle({}) /\ SchemaIdle /\ HttpIdle

SpecCollect == InitPipeline /\ [][NextCollect]_vars

NextLinker ==
    \/ \E cfg \in LinkerConfigs, terms \in SynonymLists, iupac \in IupacNames : LinkCid(2244, cfg, terms, iupac)
    \/ SkipBlankTerm
    \/ StartTerm
    \/ SearchRequest
    \/ SkipStudy
    \/ AppendLink
    \/ PageDone
    \/ LinkReturn

InitLinkCid == InitResolver /\ InitExport /\ CollectIdle(NoUpstream) /\ InitLinker /\ DatasetIdle /\ MergeIdle /\ HistoryIdle({}) /\ SchemaIdle /\ HttpIdle

SpecLinker == InitLinkCid /\ [][NextLinker]_vars

(***************************************************************************)
(* Properties of the streaming pipeline                                    *)
(***************************************************************************)
\* the rows the running (or last finished) run appended
RunLinks == SubSeq(links_file, links_at_start + 1, Len(links_file))

RunStudies == SubSeq(studies_file, studies_at_start + 1, Len(studies_file))

\* the trial IDs the run found in studies.jsonl when it started in resume mode
LoadedNcts ==
    IF config.resume THEN {studies_file[i].nctId : i \in 1..studies_at_start} ELSE {}

\* the CIDs that had a link record when the run started
RecordedCids == {links_file[i].cid : i \in 1..links_at_start}

RECURSIVE RefsOf(_)
RefsOf(rows) == IF rows = <<>> THEN <<>> ELSE Head(rows).nct_ids \o RefsOf(Tail(rows))

\* the trial IDs in the order the CIDs of this run reference them
RunRefs == RefsOf(RunLinks)

FirstRef(n) == CHOOSE i \in 1..Len(RunRefs) : RunRefs[i] = n /\ \A j \in 1..(i - 1) : RunRefs[j] # n

LimitHit == nct_requested >= nct_fetch_limit(config)

Running == stage \in {"loop", "compound", "map_csv", "studies"}

\* the loop over the CIDs has ended (line 216)
RunComplete == stage = "loop" /\ idx > Len(cids)

\* C7: with limit_ncts = L at most L documents are fetched in a run, and once the limit is
\* hit every trial ID of a processed CID whose document is cached (fetched earlier in the
\* run or loaded on resume) has a study row tagged with that CID, wherever the uncached
\* IDs sit in the CID's list.
C7_LimitKeepsWritingCached ==
    /\ (Running /\ config.limit_ncts # NoneInt) => Len(fetch_log) <= config.limit_ncts
    /\ (stage = "loop" /\ rec # NoRec /\ LimitHit) =>
          \A i \in 1..Len(rec.link.nct_ids) :
             rec.link.nct_ids[i] \in DOMAIN study_cache =>
                \E j \in 1..Len(RunStudies) :
                   RunStudies[j] = [nctId |-> rec.link.nct_ids[i], cid |-> rec.link.cid]

\* C8: in a run every trial document is fetched at most once, never for an ID that the
\* run loaded from the prior studies.jsonl (resume), every fetched document stays in the
\* cache, and the fetches follow the order in which the CIDs first reference the IDs.
C8_FetchOncePerRun ==
    Running =>
       /\ \A i, j \in 1..Len(fetch_log) : i # j => fetch_log[i] # fetch_log[j]
       /\ \A i \in 1..Len(fetch_log) :
             /\ fetch_log[i] \notin LoadedNcts
             /\ fetch_log[i] \in DOMAIN study_cache
             /\ study_cache[fetch_log[i]] = [nctId |-> fetch_log[i]]
             /\ \E r \in 1..Len(RunRefs) : RunRefs[r] = fetch_log[i]
       /\ \A i, j \in 1..Len(fetch_log) : i < j => FirstRef(fetch_log[i]) < FirstRef(fetch_log[j])
       /\ Len(fetch_log) = nct_requested

\* a resumed run that wrote a document loaded from disk for a new CID and fetched another
C8_Witness ==
    /\ RunComplete
    /\ config.resume
    /\ fetch_log # <<>>
    /\ \E j \in 1..Len(RunStudies) : RunStudies[j].nctId \in LoadedNcts
    /\ \E i, j \in 1..Len(studies_file) :
          studies_file[i].nctId = studies_file[j].nctId /\ studies_file[i].cid # studies_file[j].cid

\* C9: a run with resume=true never resolves a CID that had a link record when it started,
\* and when every run on the directory had resume=true, completed or interrupted,
\* cid_nct_links.jsonl holds at most one record per CID.
C9_OneLinkRecordPerCid ==
    /\ (Running /\ config.resume) =>
          \A i \in 1..Len(resolve_log) : resolve_log[i] \notin RecordedCids
    /\ all_resume =>
          \A i, j \in 1..Len(links_file) : i # j => links_file[i].cid # links_file[j].cid

\* a second resumed run that skipped a recorded CID and added the record of another one
C9_Witness ==
    /\ RunComplete
    /\ all_resume
    /\ n_runs > 1
    /\ \E i \in 1..Len(cids) : cids[i] \in RecordedCids
    /\ resolve_log # <<>>
    /\ Len(links_file) = Len(cids)

(***************************************************************************)
(* Properties of export_cids_nct_dataset                                   *)
(***************************************************************************)
\* the link row of the i-th CID says that the resolver raised
ResolverErrorCaptured(i) ==
    LitAt(links_rows[i].error, 1, ErrorText("pug_view_error", export_answers[i].ra))

\* the i-th CID got its trial IDs from the term-based linker
LinkerSupplied(i) ==
    /\ export_cfg.use_ctgov_fallback
    /\ export_answers[i].la.outcome = "ok"
    /\ export_answers[i].la.ids # {}
    /\ links_rows[i].nct_ids = Sorted(export_answers[i].la.ids)

ResolverRaised(i) == export_answers[i].ra.outcome = "raise"

PropsRaised(i) == export_answers[i].pa.outcome = "raise"

\* fail_fast=false, apart from the nct_ids of a CID whose resolver call raised
CapturesFailures ==
    (export_pc # "idle" /\ ~export_cfg.fail_fast) =>
       /\ export_pc # "raised"
       /\ Len(links_rows) = export_idx - 1
       /\ Len(export_answers) = Len(links_rows)
       /\ \A i \in 1..Len(links_rows) :
             /\ links_rows[i].cid = export_cids[i]
             /\ ResolverRaised(i) => ResolverErrorCaptured(i)
       /\ export_cfg.include_compound_props =>
             /\ Len(compounds_rows) = Len(links_rows)
             /\ \A i \in 1..Len(compounds_rows) :
                   /\ compounds_rows[i].cid = export_cids[i]
                   /\ PropsRaised(i) =>
                         compounds_rows[i].error = ErrorText("compound_props_error", export_answers[i].pa)
       /\ export_pc = "done" => export_idx = Len(export_cids) + 1
       /\ (export_pc = "done" /\ export_cfg.write_jsonl) => out_links = File(links_rows)

\* fail_fast=true: the first exception leaves export_cids_nct_dataset, nothing is written
FailFastPropagates ==
    (export_pc # "idle" /\ export_cfg.fail_fast) =>
       /\ \A i \in 1..Len(export_answers) :
             (ResolverRaised(i) \/ export_answers[i].la.outcome = "raise" \/ PropsRaised(i)) =>
                /\ i = Len(export_answers)
                /\ export_pc = "raised"
                /\ export_raised \in {export_answers[i].ra.exc, export_answers[i].la.exc, export_answers[i].pa.exc} \ {""}
                /\ out_links = NoFile
       /\ export_pc = "raised" => export_raised # ""

\* C10: with fail_fast=false an exception of the resolver or of the compound-properties
\* call is captured as the error field of that CID's row, with empty nct_ids for a resolver
\* failure, processing goes on, and the output holds one link row per input CID in input
\* order; with fail_fast=true the exception propagates and aborts the run.
C10_FailureRowsHaveNoIds ==
    /\ CapturesFailures
    /\ FailFastPropagates
    /\ (export_pc # "idle" /\ ~export_cfg.fail_fast) =>
          \A i \in 1..Len(links_rows) : ResolverRaised(i) => links_rows[i].nct_ids = <<>>

\* C10 as the code has it: the same, except that the row of a resolver failure has empty
\* nct_ids unless the CTGov fallback linker is enabled and found trial IDs for the CID.
C10_FailureCaptured ==
    /\ CapturesFailures
    /\ FailFastPropagates
    /\ (export_pc # "idle" /\ ~export_cfg.fail_fast) =>
          \A i \in 1..Len(links_rows) :
             ResolverRaised(i) => (links_rows[i].nct_ids = <<>> \/ LinkerSupplied(i))

\* a finished export whose first CID failed in the resolver and in the properties call
\* and got its IDs from the linker, and whose second CID was resolved
C10_Witness ==
    /\ export_pc = "done"
    /\ ~export_cfg.fail_fast
    /\ export_cfg.write_jsonl
    /\ Len(out_links.rows) = 2
    /\ ResolverRaised(1) /\ PropsRaised(1) /\ LinkerSupplied(1)
    /\ ResolverErrorCaptured(1)
    /\ ~ResolverRaised(2) /\ out_links.rows[2].nct_ids # <<>>

(***************************************************************************)
(* Properties of the term-based linker                                     *)
(***************************************************************************)
\* every (term, mode, study) of the running call, in iteration order
Visits == occurrences(ctgov, syns, link_cfg.ctgov_max_pages_per_term)

VisitQualifies(o) ==
    /\ link_extract_nct_id(o.study) # ""
    /\ score(o.term, o.study).score >= link_cfg.min_score

\* the position in Visits of the first qualifying occurrence of trial nct (0: none)
FirstQualifying(nct) ==
    IF \E i \in 1..Len(Visits) : VisitQualifies(Visits[i]) /\ link_extract_nct_id(Visits[i].study) = nct
    THEN CHOOSE i \in 1..Len(Visits) :
            /\ VisitQualifies(Visits[i]) /\ link_extract_nct_id(Visits[i].study) = nct
            /\ \A j \in 1..(i - 1) :
                   ~(VisitQualifies(Visits[j]) /\ link_extract_nct_id(Visits[j].study) = nct)
    ELSE 0

\* the trial IDs of the qualifying occurrences
QualifyingIds == { link_extract_nct_id(Visits[i].study) : i \in { j \in 1..Len(Visits) : VisitQualifies(Visits[j]) } }

LinkCidReturned == link_pc = "done"

\* C11: every link link_cid holds has evidence.score >= min_score; with
\* min_score = 5 there is no link at all, and when one document is the only
\* qualifying one with min_score = 2 the call returns exactly one link.
C11_ScoreAtLeastMin ==
    /\ \A i \in 1..Len(results) : results[i].evidence.score >= link_cfg.min_score
    /\ link_cfg.min_score = 5 => results = <<>>
    /\ (LinkCidReturned /\ link_cfg.min_score = 2 /\ Cardinality(QualifyingIds) = 1)
           => Len(results) = 1

\* a returned call that kept a document and passed over one below min_score,
\* and a returned call of the one-document search that holds one link
C11_Witness ==
    /\ LinkCidReturned
    /\ \/ /\ link_cfg.min_score = 3
          /\ results # <<>>
          /\ \E j \in 1..(study_i - 1) :
                 /\ link_extract_nct_id(page.studies[j]) # ""
                 /\ score(current_term, page.studies[j]).score = 2
       \/ /\ link_cfg.min_score = 2
          /\ ctgov = CtgovStub(<< <<DocAspirin>> >>, << <<DocAspirin>> >>)
          /\ Len(results) = 1
          /\ Len(search_log) > 1

\* C12: link_cid holds at most max_links_per_cid links, for every cap
\* including 0.
C12_AtMostCap == Len(results) <= link_cfg.max_links_per_cid

\* C13: no two links of the result have the same trial ID, and the evidence
\* of a link is that of the first qualifying occurrence of its trial in
\* iteration order (terms in list order, intervention query before free-text
\* query), also when a later occurrence scores higher.
C13_FirstMatchWins ==
    /\ \A i, j \in 1..Len(results) : results[i].nct_id = results[j].nct_id => i = j
    /\ \A i \in 1..Len(results) :
           LET f == FirstQualifying(results[i].nct_id)
           IN  /\ f # 0
               /\ results[i] = LinkResult(link_arg, results[i].nct_id, Visits[f].term, Visits[f].mode,
                                          score(Visits[f].term, Visits[f].study))
    /\ \A i, j \in 1..Len(results) :
           i < j => FirstQualifying(results[i].nct_id) < FirstQualifying(results[j].nct_id)

\* a returned call holding a link of a trial that a later term would have scored higher
C13_Witness ==
    /\ LinkCidReturned
    /\ \E i \in 1..Len(results) :
           \E v \in (FirstQualifying(results[i].nct_id) + 1)..Len(Visits) :
               /\ link_extract_nct_id(Visits[v].study) = results[i].nct_id
               /\ score(Visits[v].term, Visits[v].study).score > results[i].evidence.score
               /\ \E r \in 1..Len(search_log) : search_log[r].term = Visits[v].term

\* C14: once the call holds max_links_per_cid links, no search request is
\* issued any more.
C14_NoRequestAfterCap ==
    [][(link_pc # "idle" /\ cap_reached(Len(results), link_cfg)) => search_log' = search_log]_vars

\* the same for a cap of at least one link
C14_NoRequestAfterPositiveCap ==
    [][(link_pc # "idle" /\ link_cfg.max_links_per_cid >= 1 /\ cap_reached(Len(results), link_cfg))
          => search_log' = search_log]_vars

NextDataset ==
    \/ \E cfg \in DatasetBuildConfigs, input \in BuildInputs : BuildStart(cfg, input)
    \/ BuildCompound
    \/ BuildRaises
    \/ BuildLinkCidRaises
    \/ BuildLinkFetch
    \/ BuildFetchRaises
    \/ BuildLinkCached
    \/ BuildCidDone
    \/ BuildWrite

SpecDataset == Init /\ [][NextDataset]_vars

(***************************************************************************)
(* Properties of build_dataset_for_cids                                    *)
(***************************************************************************)
\* how often x occurs in the sequence q
Count(q, x) == Cardinality({ i \in 1..Len(q) : q[i] = x })

LinkedTrials(rows) == { rows[i].nct_id : i \in 1..Len(rows) }

\* C15: get_study is called at most once per trial ID; when the call has
\* returned, it was called exactly once for every trial ID of a link, and
\* studies.jsonl holds exactly one document for every distinct trial ID of
\* links.jsonl, and no other.
C15_FetchOncePerBatch ==
    /\ \A i, j \in 1..Len(get_study_log) : get_study_log[i] = get_study_log[j] => i = j
    /\ build_pc = "done" =>
           \A nct \in LinkedTrials(build_links) : Count(get_study_log, nct) = 1
    /\ ds_links.exists =>
           /\ ds_studies.exists
           /\ \A nct \in LinkedTrials(ds_links.rows) :
                  Cardinality({ i \in 1..Len(ds_studies.rows) : extract_nct_id(ds_studies.rows[i]) = nct }) = 1
           /\ \A i \in 1..Len(ds_studies.rows) :
                  extract_nct_id(ds_studies.rows[i]) \in LinkedTrials(ds_links.rows)

\* a finished batch of two CIDs that both link to the same trial, with two
\* distinct trials in links.jsonl
C15_Witness ==
    /\ build_pc = "done"
    /\ ds_links.exists
    /\ \E i, j \in 1..Len(ds_links.rows) :
           /\ ds_links.rows[i].cid # ds_links.rows[j].cid
           /\ ds_links.rows[i].nct_id = ds_links.rows[j].nct_id
    /\ Cardinality(LinkedTrials(ds_links.rows)) = 2
    /\ Len(ds_studies.rows) = 2

(***************************************************************************)
(* Provenance of a link row of map_cid_to_nct_record                       *)
(***************************************************************************)
\* the term-based linker was called for the i-th CID
LinkerRan(i) == export_answers[i].la.outcome # "none"

\* the resolver returned no trial ID for the i-th CID (it raised, or returned an empty list)
ResolverGaveNoId(i) == ResolverRaised(i) \/ export_answers[i].ra.ids = <<>>

\* the label the resolver returned for the i-th CID; "" when it returned none: it raised, or
\* the client has no nct_ids_for_cid_with_source
ReturnedLabel(i) ==
    IF export_cfg.with_source /\ ~ResolverRaised(i) THEN export_answers[i].ra.source ELSE ""

LinkerOnlyAsFallback ==
    \A i \in 1..Len(links_rows) :
        /\ LinkerRan(i) => (export_cfg.use_ctgov_fallback /\ ResolverGaveNoId(i))
        /\ links_rows[i].source = LabelCtgovFallback <=> LinkerSupplied(i)

\* C16 as stated: the linker runs only when use_ctgov_fallback is set and the
\* resolver produced no trial ID; the source of a link row is the CTGov
\* term-link fallback label exactly when its nct_ids came from the linker,
\* and otherwise the label returned by the resolver.
C16_SourceIsResolverLabel ==
    /\ LinkerOnlyAsFallback
    /\ \A i \in 1..Len(links_rows) :
           ~LinkerSupplied(i) => links_rows[i].source = ReturnedLabel(i)

\* C16 amended: as above, and a row whose nct_ids did not come from the
\* linker carries the label the resolver returned, or the label
\* "PubChem PUG-View annotations" when the resolver returned none.
C16_SourceIsResolverOrDefaultLabel ==
    /\ LinkerOnlyAsFallback
    /\ \A i \in 1..Len(links_rows) :
           ~LinkerSupplied(i) =>
               links_rows[i].source = (IF ReturnedLabel(i) # "" THEN ReturnedLabel(i) ELSE LabelAnnotations)

\* an export of two CIDs with the fallback enabled: the first row got its IDs
\* from the linker, the resolver raised for the second and the linker found
\* nothing
C16_Witness ==
    /\ export_pc = "done"
    /\ Len(links_rows) = 2
    /\ LinkerSupplied(1) /\ links_rows[1].source = LabelCtgovFallback
    /\ ~ResolverRaised(1)
    /\ ResolverRaised(2) /\ LinkerRan(2) /\ ~LinkerSupplied(2)
    /\ links_rows[2].source = LabelAnnotations

NextMerge ==
    \/ \E dirs \in ShardLists : MergeStart(dirs)
    \/ MergeShardMissing
    \/ MergeKeep
    \/ MergeSkip
    \/ MergeShardDone
    \/ MergeWrite

SpecMerge == Init /\ [][NextMerge]_vars

(***************************************************************************)
(* Properties of the shard merge                                           *)
(***************************************************************************)
\* whether two rows agree on every field
SameFields(r1, r2) ==
    /\ row_keys(r1) = row_keys(r2)
    /\ \A key \in row_keys(r1) : row_get(r1, key) = row_get(r2, key)

\* the rows of all shards in reading order
RECURSIVE Concat(_)
Concat(dirs) == IF dirs = <<>> THEN <<>> ELSE Head(dirs).rows \o Concat(Tail(dirs))

\* the rows of q whose fields differ from those of every earlier row of q
FirstOccurrences(q) ==
    LET keep == { i \in 1..Len(q) : \A j \in 1..(i - 1) : ~SameFields(q[j], q[i]) }
        nth(n) == CHOOSE i \in keep : Cardinality({ j \in keep : j < i }) = n - 1
    IN  [n \in 1..Cardinality(keep) |-> q[nth(n)]]

MergeDone == merge_pc = "done"

\* shard B holds only rows of shard A
TwoShardsSecondWithin ==
    /\ Len(shard_dirs) = 2
    /\ \A i \in 1..Len(shard_dirs[2].rows) :
           \E j \in 1..Len(shard_dirs[1].rows) :
               row_signature(shard_dirs[2].rows[i]) = row_signature(shard_dirs[1].rows[j])

\* C17 as stated: when every row of B has the signature of a row of A, the
\* merged output has len(A) rows and n_input_rows is len(A) + len(B).
C17_SubsetShardAddsNothing ==
    (MergeDone /\ TwoShardsSecondWithin) =>
        /\ Len(merged_trials.rows) = Len(shard_dirs[1].rows)
        /\ summary.n_input_rows = Len(shard_dirs[1].rows) + Len(shard_dirs[2].rows)

\* C17 amended: the merged output has one row per distinct row of A, that
\* is len(A) rows when no two rows of A have the same signature.
C17_SubsetShardAddsNothingToDistinct ==
    (MergeDone /\ TwoShardsSecondWithin) =>
        /\ Len(merged_trials.rows) = Cardinality({ row_signature(shard_dirs[1].rows[j]) : j \in 1..Len(shard_dirs[1].rows) })
        /\ summary.n_rows = Len(merged_trials.rows)
        /\ summary.n_input_rows = Len(shard_dirs[1].rows) + Len(shard_dirs[2].rows)

\* a finished merge of a shard of two distinct rows and a shard repeating one of them
C17_Witness ==
    /\ MergeDone /\ TwoShardsSecondWithin
    /\ Len(shard_dirs[1].rows) = 2 /\ Len(shard_dirs[2].rows) = 1
    /\ Len(merged_trials.rows) = 2
    /\ summary.n_input_rows = 3

\* C18: the merged rows are the rows of the shards, read in the given order,
\* that differ in some field from every earlier row: one row per distinct
\* signature, in the order of first occurrence.
C18_OneRowPerSignature ==
    /\ \A i, j \in 1..Len(merged_rows) :
           row_signature(merged_rows[i]) = row_signature(merged_rows[j]) => i = j
    /\ MergeDone =>
           /\ merged_trials.rows = FirstOccurrences(Concat(shard_dirs))
           /\ { row_signature(merged_trials.rows[i]) : i \in 1..Len(merged_trials.rows) }
                  = { row_signature(Concat(shard_dirs)[i]) : i \in 1..Len(Concat(shard_dirs)) }

\* a finished merge that dropped a row equal to a kept one up to key order
\* and kept two rows of one trial that differ in the title
C18_Witness ==
    /\ MergeDone
    /\ \E i, j \in 1..Len(Concat(shard_dirs)) :
           /\ i < j
           /\ Concat(shard_dirs)[i] # Concat(shard_dirs)[j]
           /\ SameFields(Concat(shard_dirs)[i], Concat(shard_dirs)[j])
    /\ \E i, j \in 1..Len(merged_trials.rows) :
           /\ i # j
           /\ row_get(merged_trials.rows[i], "id") = row_get(merged_trials.rows[j], "id")
    /\ Len(merged_trials.rows) < Len(Concat(shard_dirs))

NextHistory ==
    \/ \E args \in HistoryArgs : HistoryStart(args)
    \/ HistoryFileMissing
    \/ \E args \in HistoryArgs : HistoryJsonRaises(args)
    \/ HistoryPrune
    \/ HistoryWriteState

InitHistory ==
    /\ InitResolver /\ InitExport /\ CollectIdle(NoUpstream) /\ LinkerIdle(NoCtgov) /\ DatasetIdle /\ MergeIdle
    /\ SchemaIdle
    /\ HttpIdle
    /\ \E names \in HistoryDirs : HistoryIdle(names)

SpecHistory == InitHistory /\ [][NextHistory]_vars

(***************************************************************************)
(* Properties of the history tracker                                       *)
(***************************************************************************)
\* the snapshot files among names: trials_, a token, .json
SnapshotFiles(names) ==
    { p \in names : Len(p) >= 12 /\ p = "trials_" \o SubSeq(p, 8, Len(p) - 5) \o ".json" }

\* a run has just been completed
RunCompleted == hist_pc = "idle" /\ state_file.exists

\* the completed run met the file of the run before it, byte for byte
SecondRunSameFile == RunCompleted /\ ~last_run.first /\ last_run.same_file

FirstAndChangedRuns ==
    /\ (RunCompleted /\ last_run.first) =>
           (last_run.changed /\ (hist_args.changed_flag_path => changed_flag = "true\n"))
    /\ SecondRunSameFile =>
           /\ ~last_run.changed /\ (hist_args.changed_flag_path => changed_flag = "false\n")
           /\ last_run.snapshot_on_change => state_file.history_count <= last_run.history_count_before
    /\ (RunCompleted /\ ~last_run.first /\ ~last_run.same_file) => last_run.changed

\* C19 as stated: the first run reports changed=true; a run on the
\* byte-identical file reports changed=false and does not increase
\* history_count with snapshot_on_change, but increases it without the
\* flag; a run on a modified file reports changed=true.
C19_ChangedAndHistoryCount ==
    /\ FirstAndChangedRuns
    /\ (SecondRunSameFile /\ ~last_run.snapshot_on_change) =>
           state_file.history_count > last_run.history_count_before

\* C19 amended: without the flag the run adds the snapshot named by its
\* timestamp, so history_count increases when no snapshot of that name was
\* there and the run pruned nothing.
C19_ChangedAndHistoryCountUnlessSameName ==
    /\ FirstAndChangedRuns
    /\ (SecondRunSameFile /\ ~last_run.snapshot_on_change) =>
           /\ snapshot_name(last_run.timestamp) \in last_run.after
           /\ state_file.history_count =
                  Cardinality(SnapshotFiles(last_run.before) \cup {snapshot_name(last_run.timestamp)})
                      - state_file.last_pruned_count
           /\ (snapshot_name(last_run.timestamp) \notin last_run.before /\ state_file.last_pruned_count = 0)
                  => state_file.history_count > last_run.history_count_before

\* a run without the flag on the unchanged file, at a later timestamp, that
\* pruned nothing and raised history_count
C19_Witness ==
    /\ SecondRunSameFile /\ ~last_run.snapshot_on_change
    /\ hist_args.changed_flag_path /\ changed_flag = "false\n"
    /\ state_file.last_pruned_count = 0
    /\ state_file.history_count = last_run.history_count_before + 1
    /\ last_run.n = 2

\* the files of the history directory when the last run pruned it
BeforePruning == last_run.before \cup (IF snapshot_path # "" THEN {snapshot_path} ELSE {})

\* C20: after a run with retention_days = d >= 0 no snapshot with a file name
\* timestamp older than the run timestamp minus d days is left; history_count
\* is the number of snapshot files left and last_pruned_count the number
\* deleted; a negative d deletes nothing.
C20_RetentionPrunes ==
    RunCompleted =>
        /\ (last_run.retention_days >= 0) =>
               (\A p \in history_dir :
                   (parse_snapshot_timestamp(p) # NoInstant) =>
                       ~Before(parse_snapshot_timestamp(p),
                               minus_days(now_dt(last_run.timestamp), last_run.retention_days)))
        /\ state_file.history_count = Cardinality(SnapshotFiles(history_dir))
        /\ history_dir \subseteq BeforePruning
        /\ state_file.last_pruned_count = Cardinality(BeforePruning \ history_dir)
        /\ (last_run.retention_days < 0) => (history_dir = BeforePruning /\ state_file.last_pruned_count = 0)

\* a run with retention_days = 1 that deleted an older snapshot and kept a younger one
C20_Witness ==
    /\ RunCompleted
    /\ last_run.retention_days = 1
    /\ state_file.last_pruned_count >= 1
    /\ state_file.history_count >= 2
    /\ \E p \in last_run.before : p \notin history_dir

NextSchema ==
    \/ \E input \in SdqInputs : SdqAnswer(input)
    \/ GetNormalizedTrials
    \/ GetNormalizedTrialsUnion
    \/ AlignAgain
    \/ \E base \in PreferredHeaders : WriteCsv(base)

SpecSchema == Init /\ [][NextSchema]_vars

(***************************************************************************)
(* Properties of the canonical projection and of the schema unifier        *)
(***************************************************************************)
KeysOf(row) == [i \in 1..Len(row) |-> row[i].key]

IsAscending(q) == \A i \in 1..(Len(q) - 1) : StrLess(q[i], q[i + 1])

NoRepeats(q) == \A i, j \in 1..Len(q) : q[i] = q[j] => i = j

\* out has the keys of key_list in that order, with the value row has for the key and
\* None for a key row lacks
IsProjection(out, row, key_list) ==
    /\ KeysOf(out) = key_list
    /\ \A i \in 1..Len(out) :
          out[i].value = (IF out[i].key \in row_keys(row) THEN row_get(row, out[i].key) ELSE JNull)

Unified == schema_pc \in {"aligned", "realigned", "csv"}

\* C21: the unifier applied to the rows it returned gives back the same rows, with
\* the same keys in the same order, and the same key list
C21_UnifierFixedPoint ==
    schema_pc \in {"realigned", "csv"} =>
        /\ realigned.rows = aligned
        /\ realigned.keys = ordered_keys

\* two rows with different keys were unified and then unified again
C21_Witness ==
    /\ schema_pc = "realigned"
    /\ Len(union_rows) >= 2
    /\ row_keys(union_rows[1]) # row_keys(union_rows[2])
    /\ Len(ordered_keys) > 9
    /\ realigned.rows = aligned

\* the preferred keys that occur in the rows, in the caller's order
PreferredPart(key_list, preferred) ==
    LET preferred_key(key) == key \in SeqToSet(preferred)
    IN  SelectSeq(key_list, preferred_key)

RemainingPart(key_list, preferred) ==
    LET other_key(key) == key \notin SeqToSet(preferred)
    IN  SelectSeq(key_list, other_key)

\* i before j in key_list implies the same in preferred, for preferred keys
InCallersOrder(key_list, preferred) ==
    \A i, j \in 1..Len(key_list) :
        i < j =>
            \A a, b \in 1..Len(preferred) :
                (preferred[a] = key_list[i] /\ preferred[b] = key_list[j]) => a < b

\* key_list is the union of the keys of rows: preferred keys first, the others sorted
IsUnionHeader(key_list, rows, preferred) ==
    /\ SeqToSet(key_list) = union_keys(rows)
    /\ NoRepeats(key_list)
    /\ key_list = PreferredPart(key_list, preferred) \o RemainingPart(key_list, preferred)
    /\ InCallersOrder(PreferredPart(key_list, preferred), preferred)
    /\ IsAscending(RemainingPart(key_list, preferred))

\* C22: the header of the CSV writer is the union of the row keys, the preferred keys
\* that occur first in the caller's order and the other keys in lexicographic order;
\* align_rows_to_union_schema, which takes no preferred keys, returns the union in
\* lexicographic order; both project every row onto the whole key list, with None for
\* the keys the row lacks
C22_UnionKeyOrderAndProjection ==
    /\ Unified =>
          /\ IsUnionHeader(ordered_keys, union_rows, <<>>)
          /\ Len(aligned) = Len(union_rows)
          /\ \A i \in 1..Len(aligned) : IsProjection(aligned[i], union_rows[i], ordered_keys)
    /\ schema_pc = "csv" =>
          /\ IsUnionHeader(header, union_rows, base_first)
          /\ Len(csv_rows) = Len(union_rows)
          /\ \A i \in 1..Len(csv_rows) : IsProjection(csv_rows[i], union_rows[i], header)

\* a preferred key that occurs, one that does not, a key order that differs from the
\* lexicographic one, and a row that lacks a key of the union
C22_Witness ==
    /\ schema_pc = "csv"
    /\ \E i \in 1..Len(base_first) : base_first[i] \in union_keys(union_rows)
    /\ \E i \in 1..Len(base_first) : base_first[i] \notin union_keys(union_rows)
    /\ header # ordered_keys
    /\ \E i \in 1..Len(union_rows) :
          /\ row_keys(union_rows[i]) # union_keys(union_rows)
          /\ \E j \in 1..Len(csv_rows[i]) :
                csv_rows[i][j].key \notin row_keys(union_rows[i]) /\ csv_rows[i][j].value = JNull

\* a field that holds something: neither None nor the empty string
HasValue(v) == v # JNull /\ v # JStr("")

Preferring(first, second) == IF HasValue(first) THEN first ELSE second

Normalized == schema_pc \in {"canonical", "aligned", "realigned", "csv"}

\* C23: id is eudractnumber, else ctid, for the EU collection, and ctid, else
\* eudractnumber, for any other; date is the row's date, and updatedate when the row
\* has no date (None); id_url is id_url, else link; collection is the label of a known
\* collection and the code of an unknown one
C23_FieldAliasing ==
    Normalized =>
        /\ Len(canonical_rows) = Len(sdq_rows)
        /\ \A i \in 1..Len(sdq_rows) :
              LET raw == sdq_rows[i].row
                  code == sdq_rows[i].collection
                  out == canonical_rows[i]
              IN  /\ row_get(out, "id") =
                        (IF code = "clinicaltrials_eu"
                         THEN Preferring(row_get(raw, "eudractnumber"), row_get(raw, "ctid"))
                         ELSE Preferring(row_get(raw, "ctid"), row_get(raw, "eudractnumber")))
                  /\ row_get(out, "date") =
                        (IF "date" \in row_keys(raw) /\ row_get(raw, "date") # JNull
                         THEN row_get(raw, "date")
                         ELSE row_get(raw, "updatedate"))
                  /\ row_get(out, "id_url") = Preferring(row_get(raw, "id_url"), row_get(raw, "link"))
                  /\ row_get(out, "collection_code") = JStr(code)
                  /\ row_get(out, "collection") =
                        JStr(CASE code = "clinicaltrials" -> "ClinicalTrials.gov"
                               [] code = "clinicaltrials_eu" -> "EU Clinical Trials Register"
                               [] code = "clinicaltrials_jp" -> "NIPH Clinical Trials Search of Japan"
                               [] OTHER -> code)

\* an EU row and a row of another collection that both carry the two identifiers, and
\* a row whose date comes from updatedate
C23_Witness ==
    /\ schema_pc = "canonical"
    /\ \E i, j \in 1..Len(sdq_rows) :
          /\ sdq_rows[i].collection = "clinicaltrials_eu"
          /\ sdq_rows[j].collection # "clinicaltrials_eu"
          /\ {"ctid", "eudractnumber"} \subseteq row_keys(sdq_rows[i].row)
          /\ sdq_rows[j].row = sdq_rows[i].row
          /\ HasValue(row_get(sdq_rows[i].row, "ctid"))
          /\ row_get(canonical_rows[i], "id") = row_get(sdq_rows[i].row, "eudractnumber")
          /\ row_get(canonical_rows[j], "id") = row_get(sdq_rows[j].row, "ctid")
    /\ \E i \in 1..Len(sdq_rows) :
          /\ "date" \notin row_keys(sdq_rows[i].row)
          /\ row_get(canonical_rows[i], "date") = JStr("2012-12-24")

CanonicalKeys ==
    {"collection", "collection_code", "id", "title", "phase", "status", "date", "id_url", "cids"}

\* C24: every key of the raw row is a key of the union row; a raw key that is not a
\* canonical key keeps its raw value; the canonical keys hold the values of the
\* canonical projection
C24_UnionKeepsRawFields ==
    Unified =>
        /\ Len(union_rows) = Len(sdq_rows)
        /\ \A i \in 1..Len(sdq_rows) :
              LET raw == sdq_rows[i].row
                  out == union_rows[i]
              IN  /\ NoRepeats(KeysOf(out))
                  /\ row_keys(raw) \subseteq row_keys(out)
                  /\ \A key \in row_keys(raw) \ CanonicalKeys : row_get(out, key) = row_get(raw, key)
                  /\ CanonicalKeys \subseteq row_keys(out)
                  /\ \A key \in CanonicalKeys : row_get(out, key) = row_get(canonical_rows[i], key)

\* a raw row with registry fields of its own, and one that has a canonical key itself
C24_Witness ==
    /\ schema_pc = "aligned"
    /\ \E i \in 1..Len(sdq_rows) :
          /\ "zone" \in row_keys(sdq_rows[i].row)
          /\ row_get(union_rows[i], "zone") = JStr("EU")
          /\ row_get(union_rows[i], "eudractnumber") = JStr("2010-000001-10")
    /\ \E i \in 1..Len(sdq_rows) :
          /\ row_get(sdq_rows[i].row, "id") = JStr("RAW")
          /\ row_get(union_rows[i], "id") = JStr("NCT00000002")

(***************************************************************************)
(* collect_ctgov_docs on varying source nodes and CID limits, without a    *)
(* fetch limit (line 196 is then never reached)                            *)
(***************************************************************************)
HnidLists == { <<101, 102>>, <<103, 101>>, <<102, 103, 102>>, <<104>> }

EnumerateConfigs ==
    [hnids : HnidLists, limit_cids : {NoneInt, 0, 1, MaxCid}, limit_ncts : {NoneInt},
     use_ctgov_fallback : {FALSE}, resume : BOOLEAN]

\* PubChem knows trials for every compound, one of them for all compounds
SharedTrialsUpstream ==
    [c \in 1..MaxCid |->
        IF c % 2 = 1
        THEN [ra |-> ResolverOk(<<NctB>>, LabelSdqCt), la |-> LinkerFinds({}), pa |-> PropsOk("KEY")]
        ELSE [ra |-> ResolverOk(<<NctA, NctB>>, LabelAnnotations), la |-> LinkerFinds({}),
              pa |-> PropsFails("PubChemError", "HTTP 404")]]

NextEnumerate ==
    \/ \E cfg \in EnumerateConfigs : StartRun(cfg)
    \/ WriteCidsTxt
    \/ WriteCidsJsonl
    \/ WriteMapHeader
    \/ SkipProcessed
    \/ ResolveCid
    \/ WriteCompound
    \/ WriteMapCsv
    \/ StudyFetch
    \/ StudyCached
    \/ CidDone
    \/ FinishRun
    \/ Interrupt

InitEnumerate == InitResolver /\ InitExport /\ CollectIdle(SharedTrialsUpstream) /\ LinkerIdle(NoCtgov) /\ DatasetIdle /\ MergeIdle /\ HistoryIdle({}) /\ SchemaIdle /\ HttpIdle

SpecEnumerate == InitEnumerate /\ [][NextEnumerate]_vars

(***************************************************************************)
(* Properties of the CID enumeration of collect_ctgov_docs                 *)
(***************************************************************************)
\* what the source nodes list, node after node
RECURSIVE Enumerated(_)
Enumerated(hnids) == IF hnids = <<>> THEN <<>> ELSE get_cids(Head(hnids)) \o Enumerated(Tail(hnids))

FirstIndex(q, x) == CHOOSE i \in 1..Len(q) : q[i] = x /\ \A j \in 1..(i - 1) : q[j] # x

CollectRunning == stage \in {"loop", "compound", "map_csv", "studies"}

\* the CIDs of cids[1..idx] the loop is through with or working on
Reached == SubSeq(cids, 1, IF stage = "loop" THEN idx - 1 ELSE idx)

\* C25: the CIDs of a run are the distinct CIDs the nodes list, in the order of their
\* first listing, cut to the CID limit after the repeats are dropped; the run resolves
\* them in that order, each once (those a resumed run skips aside); cids.jsonl names
\* for each CID every node of the run that lists it
C25_EnumerationOrderAndProvenance ==
    CollectRunning =>
        LET listed == Enumerated(config.hnids)
            distinct == Cardinality(SeqToSet(listed))
            new_cid(c) == c \notin processed_cids
        IN  /\ NoRepeats(cids)
            /\ SeqToSet(cids) \subseteq SeqToSet(listed)
            /\ \A i, j \in 1..Len(cids) :
                  i < j => FirstIndex(listed, cids[i]) < FirstIndex(listed, cids[j])
            /\ \A c \in SeqToSet(listed) \ SeqToSet(cids) :
                  \A i \in 1..Len(cids) : FirstIndex(listed, cids[i]) < FirstIndex(listed, c)
            /\ Len(cids) = (IF config.limit_cids # NoneInt /\ config.limit_cids < distinct
                            THEN config.limit_cids ELSE distinct)
            /\ resolve_log = SelectSeq(Reached, new_cid)
            /\ Len(cids_jsonl) = Len(cids)
            /\ \A i \in 1..Len(cids) :
                  /\ cids_jsonl[i].cid = cids[i]
                  /\ NoRepeats(cids_jsonl[i].source_hnids)
                  /\ SeqToSet(cids_jsonl[i].source_hnids) =
                        { hnid \in SeqToSet(config.hnids) : cids[i] \in SeqToSet(get_cids(hnid)) }

\* a node that lists a compound twice comes first, the limit cuts the list after the
\* repeats are dropped, and the first compound is in both nodes
C25_Witness ==
    /\ stage = "loop"
    /\ config.hnids = <<103, 101>>
    /\ config.limit_cids = 2
    /\ resolve_log = <<MaxCid, 1>>
    /\ cids_jsonl[1].source_hnids = <<101, 103>>

NextHttp ==
    \/ \E client \in HttpClients : HttpCall(client)
    \/ \E resp \in HttpResponses : HttpReturn(resp)
    \/ \E resp \in HttpResponses : HttpRetry(resp)
    \/ \E resp \in HttpResponses : HttpRaise(resp)

SpecHttp == Init /\ [][NextHttp]_vars

(***************************************************************************)
(* Properties of the request wrappers                                      *)
(***************************************************************************)
\* a failed connection, a timeout, or a rate-limit status
Transient(resp) ==
    resp.kind = "raises" \/ (resp.kind \in {"json", "malformed"} /\ resp.status \in {408, 429, 503, 504})

\* C26: a connection failure or a rate-limit status ends the call only at the last
\* attempt, before it the call goes on; a body that is not JSON (in a response that has
\* no rate-limit status) ends the call with an exception at the attempt that meets it
C26_RetryTaxonomy ==
    /\ (Transient(http_response) /\ attempt_number < StopAfterAttempt) => http_pc = "calling"
    /\ (Transient(http_response) /\ attempt_number = StopAfterAttempt) => http_pc = "raised"
    /\ (http_response.kind = "malformed" /\ ~Transient(http_response)) => http_pc = "raised"

\* the Retry-After header is a duration time.sleep can raise OverflowError or OSError for
SleepRefused(resp) ==
    /\ resp.retry_after # ""
    /\ is_float(resp.retry_after)
    /\ sleep_raises(float_of(resp.retry_after)) \cap {"OverflowError", "OSError"} # {}

\* the claim for CTGovClient._get alone, where json.JSONDecodeError is a base of the
\* class Response.json() raises and time.sleep takes the Retry-After duration
C26_CtgovRetryTaxonomy ==
    (/\ http_client = "ctgov"
     /\ http_response.kind = "malformed" => http_response.json_decode_error
     /\ ~SleepRefused(http_response)) =>
        C26_RetryTaxonomy

(***************************************************************************)
(* collect_ctgov_docs killed and rerun with resume=true, without limits    *)
(***************************************************************************)
ResumeConfig ==
    [hnids |-> <<101, 102>>, limit_cids |-> NoneInt, limit_ncts |-> NoneInt,
     use_ctgov_fallback |-> FALSE, resume |-> TRUE]

NextResume ==
    \/ StartRun(ResumeConfig)
    \/ WriteCidsTxt
    \/ WriteCidsJsonl
    \/ WriteMapHeader
    \/ SkipProcessed
    \/ ResolveCid
    \/ WriteCompound
    \/ WriteMapCsv
    \/ StudyFetch
    \/ StudyCached
    \/ CidDone
    \/ FinishRun
    \/ Interrupt

SpecResume == InitPipeline /\ [][NextResume]_vars

\* the record map_cid_to_nct_record gives for a CID, in every run
RecordOf(cid) ==
    map_cid_to_nct_record(cid, cid_cfg(ResumeConfig), upstream[cid].ra,
                          linker_answer(cid_cfg(ResumeConfig), upstream[cid]),
                          props_answer(cid_cfg(ResumeConfig), upstream[cid]))

\* the CIDs of cids.txt
EnumeratedCids == SeqToSet(read_cids(cids_file))

\* what one run that nothing interrupts leaves in the three files
UninterruptedLinks == { RecordOf(cid).link : cid \in EnumeratedCids }

UninterruptedCompounds == { RecordOf(cid).compound : cid \in EnumeratedCids }

UninterruptedStudies ==
    UNION { { out_study(StudyDoc(RecordOf(cid).link.nct_ids[i]), cid) :
                i \in 1..Len(RecordOf(cid).link.nct_ids) } : cid \in EnumeratedCids }

\* C27: when a run with resume=true completes, after any number of killed runs, the
\* three files hold the records of one uninterrupted run: for every enumerated CID its
\* link record, its compound record and a study row for each of its trial IDs
C27_ResumeRecoversEverything ==
    stage = "finished" =>
        /\ SeqToSet(links_file) = UninterruptedLinks
        /\ SeqToSet(compounds_file) = UninterruptedCompounds
        /\ SeqToSet(studies_file) = UninterruptedStudies

\* the same for a run that completes on an empty output directory
C27_FirstRunWritesEverything ==
    (stage = "finished" /\ n_runs = 1) =>
        /\ SeqToSet(links_file) = UninterruptedLinks
        /\ SeqToSet(compounds_file) = UninterruptedCompounds
        /\ SeqToSet(studies_file) = UninterruptedStudies

(***************************************************************************)
(* The pointer to the latest snapshot in the state record                  *)
(***************************************************************************)
\* C28: after every run the state record's latest_snapshot names a file of the history
\* directory, and no retained snapshot has a later timestamp in its name
C28_LatestSnapshotRetained ==
    RunCompleted =>
        /\ state_file.latest_snapshot \in history_dir
        /\ \A p \in history_dir :
              (parse_snapshot_timestamp(p) # NoInstant
                  /\ parse_snapshot_timestamp(state_file.latest_snapshot) # NoInstant)
              => ~Before(parse_snapshot_timestamp(state_file.latest_snapshot), parse_snapshot_timestamp(p))

\* the pointer is right after a run that wrote a snapshot which the run kept
C28_LatestSnapshotOfWritingRun ==
    (RunCompleted /\ snapshot_path # "" /\ snapshot_path \in history_dir) =>
        state_file.latest_snapshot = snapshot_path

(***************************************************************************)
(* collect_ctgov_docs with resolutions that fail, with and without the     *)
(* term-based fallback and resume, without limits                          *)
(***************************************************************************)
FailedConfigs ==
    [hnids : {<<101, 102>>}, limit_cids : {NoneInt}, limit_ncts : {NoneInt},
     use_ctgov_fallback : BOOLEAN, resume : BOOLEAN]

FailingAnswers ==
    { [ra |-> ResolverOk(<<NctB>>, LabelSdqCt), la |-> LinkerFinds({}), pa |-> PropsOk("KEY")],
      [ra |-> ResolverFails("PubChemPugViewError", "HTTP 503"), la |-> LinkerFails("CTGovError", "HTTP 500"),
       pa |-> PropsOk("KEY")],
      [ra |-> ResolverFails("PubChemPugViewError", "HTTP 503"), la |-> LinkerFinds({NctA}),
       pa |-> PropsOk("KEY")],
      [ra |-> ResolverFails("ConnectionError", "reset"), la |-> LinkerFinds({}),
       pa |-> PropsFails("PubChemError", "HTTP 404")] }

FailingUpstreams == [1..MaxCid -> FailingAnswers]

NextFailed ==
    \/ \E cfg \in FailedConfigs : StartRun(cfg)
    \/ WriteCidsTxt
    \/ WriteCidsJsonl
    \/ WriteMapHeader
    \/ SkipProcessed
    \/ ResolveCid
    \/ WriteCompound
    \/ WriteMapCsv
    \/ StudyFetch
    \/ StudyCached
    \/ CidDone
    \/ FinishRun
    \/ Interrupt

InitFailed ==
    /\ InitResolver /\ InitExport /\ LinkerIdle(NoCtgov) /\ DatasetIdle /\ MergeIdle /\ HistoryIdle({})
    /\ SchemaIdle /\ HttpIdle
    /\ \E w \in FailingUpstreams : CollectIdle(w)

SpecFailed == InitFailed /\ [][NextFailed]_vars

\* the link record of a resolution that failed
FailedRecord(row) == row.nct_ids = <<>> /\ row.error # ""

\* the resolver raises for the CID and the term-based fallback, if it runs, finds nothing
ResolutionFails(cid) ==
    /\ upstream[cid].ra.outcome = "raise"
    /\ ~(config.use_ctgov_fallback /\ upstream[cid].la.ids # {})

\* C29: when the resolution of a CID fails, a link record of the CID with empty nct_ids
\* and an error is appended to cid_nct_links.jsonl; a run with resume=true resolves no
\* CID that has such a record in the file when the run starts
C29_FailedCidStaysProcessed ==
    /\ (stage \in {"compound", "map_csv", "studies"} /\ ResolutionFails(cids[idx])) =>
          /\ Len(links_file) > links_at_start
          /\ links_file[Len(links_file)].cid = cids[idx]
          /\ FailedRecord(links_file[Len(links_file)])
    /\ (CollectRunning /\ config.resume) =>
          \A i \in 1..links_at_start :
              FailedRecord(links_file[i]) => links_file[i].cid \notin SeqToSet(resolve_log)

\* a resumed run is through with its CIDs: one of them has the record of a failed
\* resolution from an earlier run and was skipped, another one was resolved
C29_Witness ==
    /\ stage = "loop"
    /\ idx > Len(cids)
    /\ config.resume
    /\ resolve_log # <<>>
    /\ \E i \in 1..links_at_start :
          /\ FailedRecord(links_file[i])
          /\ links_file[i].cid \in SeqToSet(cids)
          /\ upstream[links_file[i].cid].ra.outcome = "raise"

(***************************************************************************)
(* A run without resume on an output directory that holds earlier output   *)
(***************************************************************************)
\* the loop over cids is through: the run is complete
LoopDone == stage = "loop" /\ idx > Len(cids)

\* C30: when a run with resume=false completes, cid_nct_links.jsonl holds one record
\* for every enumerated CID and no other, and studies.jsonl holds no row from before
\* the run
C30_RunWithoutResumeStartsClean ==
    (LoopDone /\ ~config.resume) =>
        /\ Len(links_file) = Len(cids)
        /\ \A c \in SeqToSet(cids) :
              Cardinality({ i \in 1..Len(links_file) : links_file[i].cid = c }) = 1
        /\ studies_file = SubSeq(studies_file, studies_at_start + 1, Len(studies_file))

\* the same for the first run on an empty output directory
C30_FirstRunIsClean ==
    (LoopDone /\ ~config.resume /\ n_runs = 1) =>
        /\ Len(links_file) = Len(cids)
        /\ \A c \in SeqToSet(cids) :
              Cardinality({ i \in 1..Len(links_file) : links_file[i].cid = c }) = 1
        /\ studies_file = SubSeq(studies_file, studies_at_start + 1, Len(studies_file))

=============================================================================
